---- MODULE Spec2Model ----
(***************************************************************************)
(* A model of the acme-to-acm Lambda handler: the mode router, the three   *)
(* mode procedures (register, certonly, renew), the per-certificate        *)
(* renewal procedure, the renewal decision of the certificate manager and  *)
(* the synchronisation of the Certbot working tree with the S3 prefix.     *)
(*                                                                         *)
(* One behaviour is one invocation.  Every awaited call of the handler is   *)
(* one action; the external collaborators (Certbot, S3, ACM, SNS) answer   *)
(* nondeterministically: they succeed or raise.                            *)
(***************************************************************************)
EXTENDS Integers, Sequences, FiniteSets, TLC

(* ------------------------------ bounds -------------------------------- *)

\* Longest configuration document (number of certificate entries).
MaxEntries == 3

\* Largest renewDaysBeforeExpiry of an entry.
MaxDays == 2

\* Most errors the collaborators raise during one invocation (a failure
\* that publish or cleanup swallows is not counted).
MaxFaults == 2

(* ------------------------- program constants -------------------------- *)

\* 1000 * 60 * 60 * 24, the divisor of needsRenewal.
MS_PER_DAY == 86400000

(* ------------------------------ values -------------------------------- *)

\* A null / undefined / empty acmCertificateArn (all falsy in the code).
NoArn == 0

\* The object at the configuration key: absent, not parseable as JSON, or
\* a document.
NoDoc == [kind |-> "NoSuchKey", certificates |-> <<>>]
BadDoc == [kind |-> "not-json", certificates |-> <<>>]
Doc(certs) == [kind |-> "json", certificates |-> certs]

NoError == ""

Modes == {"register", "certonly", "renew"}

\* Files of the Certbot config directory (relative paths under the prefix).
AccountFile == "accounts"
LineageFile == "live"

\* Error messages raised by the code or by the SDK clients.
ErrInit == "mkdir failed"
ErrS3 == "S3 error"
ErrParse == "JSON parse error"
ErrAcm == "ACM error"
ErrNoArn == "ACM did not return a certificate ARN"
ErrCertbot == "Certbot failed"
ErrRegister == "Certbot register failed"

SkipDisabled == "Certificate is disabled in configuration"
SkipNotDue == "Certificate is still valid and not due for renewal"
SkipDryRun == "Dry run mode - no actual changes made"

\* Strings whose characters matter are sequences of one-character strings.
\* The id of the entry at position i of a document.
IdNames ==
    << <<"c", "1">>, <<"c", "2">>, <<"c", "3">>, <<"c", "4">>, <<"c", "5">>,
       <<"c", "6">> >>
IdOf(i) == IdNames[i]

\* event.input.domains[0] of a certonly payload: two names that differ in
\* one non-alphanumeric character, and a third one.  NoDomain in the other
\* modes.
NoDomain == <<>>
PrimaryDomains == {<<"a", ".", "b">>, <<"a", "-", "b">>, <<"c", ".", "d">>}

\* The characters the class [a-zA-Z0-9] matches, among those in use.
AlphaNumeric == {"a", "b", "c", "d", "1", "2", "3", "4", "5", "6"}

\* primaryDomain.replace(/[^a-zA-Z0-9]/g, '-')
Sanitize(d) ==
    [i \in 1..Len(d) |-> IF d[i] \in AlphaNumeric THEN d[i] ELSE "-"]

\* certId of handleCertonlyMode: `manual-${...}`
CertId(d) == <<"manual-">> \o Sanitize(d)

\* The handle ACM holds for the entry at position i before the invocation.
PriorArn(i) == i

(* --------------------------- the variables ---------------------------- *)

VARIABLES
    pc,         \* position of the invocation in the handler
    mode,       \* event.input.mode ("" when missing)
    envOk,      \* CERTIFICATE_BUCKET and SNS_TOPIC_ARN are both set
    dryRun,     \* event.input.dryRun || false
    filter,     \* event.input.certificateIds: [present, ids]
    payloadArn, \* event.input.acmCertificateArn of a certonly payload
    domain,     \* event.input.domains[0] of a certonly payload
    s3doc,      \* the object at DOMAIN_CONFIG_KEY: NoDoc, BadDoc or Doc(..)
    config,     \* config.certificates of the parsed document
    idx,        \* position of the renew loop in config.certificates
    results,    \* the results array of handleRenewMode
    err,        \* the error caught by the mode handler's catch block
    response,   \* the LambdaResponse returned (statusCode 0 before)
    localDir,   \* the ephemeral root /tmp/certbot exists
    localFiles, \* files under the Certbot config directory
    remote,     \* objects under the certbot prefix of the bucket
    newArn,     \* the handle returned by the import of the current certificate
    log,        \* history: every call made on a collaborator, in order
    faults,     \* history: number of errors raised so far
    nrCall      \* history: the last evaluation of needsRenewal

\* The event and the environment variables: read, never written.
inputs == <<mode, envOk, dryRun, filter, payloadArn, domain>>

\* The id certonly derives from the primary domain of its payload.
ManualId == CertId(domain)

vars == <<inputs, pc, s3doc, config, idx, results, err, response, localDir,
          localFiles, remote, newArn, log, faults, nrCall>>

(* ------------------------ configuration document ---------------------- *)

\* renewDaysBeforeExpiry of the entry certonly appends.
DefaultRenewDays == 30

\* The three shapes of a CertificateConfig the renew pass tells apart:
\* disabled, enabled and never imported, enabled with a handle in ACM.
Kinds == {"disabled", "fresh", "existing"}

\* renewDaysBeforeExpiry of the entry at position i: 0, 1, .., MaxDays, 0, ..
DaysOf(i) == (i - 1) % (MaxDays + 1)

Entry(i, kind) ==
    [id |-> IdOf(i),
     enabled |-> kind # "disabled",
     acmCertificateArn |-> IF kind = "fresh" THEN NoArn ELSE PriorArn(i),
     renewDaysBeforeExpiry |-> DaysOf(i)]

Docs ==
    UNION { { Doc([i \in 1..n |-> Entry(i, kinds[i])]) :
                kinds \in [1..n -> Kinds] } :
            n \in 0..MaxEntries }

\* event.input.certificateIds: absent, the empty list, or a list naming one
\* entry of the document.
NoFilter == [present |-> FALSE, ids |-> {}]
Filters ==
    {NoFilter} \cup
    { [present |-> TRUE, ids |-> s] : s \in {{}, {IdOf(2)}} }

(* --------------------------- pure functions --------------------------- *)

\* CertificateInfo | null, as getCertificateInfo returns it: expiresIn is
\* expiryDate.getTime() - now.getTime() in milliseconds.
NullInfo == [found |-> FALSE, hasExpiry |-> FALSE, expiresIn |-> 0]
NoExpiryInfo == [found |-> TRUE, hasExpiry |-> FALSE, expiresIn |-> 0]
ExpiryInfo(ms) == [found |-> TRUE, hasExpiry |-> TRUE, expiresIn |-> ms]

\* Math.floor((expiry - now) / (1000 * 60 * 60 * 24)); \div rounds toward
\* minus infinity, as Math.floor does.
DaysUntilExpiry(info) == info.expiresIn \div MS_PER_DAY

\* A needsRenewal that always asks for a renewal.
AlwaysNeedsRenewal(info, days) == TRUE

\* A needsRenewal that tests only for a missing record, not for a missing
\* expiry: the comparison on an undefined date is false.
NeedsRenewalWithoutExpiryCheck(info, days) ==
    IF ~info.found
    THEN TRUE
    ELSE info.hasExpiry /\ DaysUntilExpiry(info) <= days

\* A needsRenewal whose comparison with the threshold is strict.
NeedsRenewalStrictly(info, days) ==
    IF ~info.found \/ ~info.hasExpiry
    THEN TRUE
    ELSE DaysUntilExpiry(info) < days

\* CertificateManager.needsRenewal, given the answer of getCertificateInfo.
NeedsRenewal(info, days) ==
    IF ~info.found \/ ~info.hasExpiry
    THEN TRUE
    ELSE DaysUntilExpiry(info) <= days

\* An obtainCertificate that always passes --force-renewal.
AlwaysForceRenewal(e) == TRUE

\* forceRenewal: !!config.acmCertificateArn
ForceRenewal(e) == e.acmCertificateArn # NoArn

\* A loop that does not look at the filter of the event.
NeverExcluded(f, id) == FALSE

\* event.input.certificateIds && !event.input.certificateIds.includes(id)
Excluded(f, id) == f.present /\ id \notin f.ids

\* A processCertificate without the dry-run check.
NeverSkipsForDryRun(dry) == FALSE

\* if (dryRun) of processCertificate.
SkipsForDryRun(dry) == dry

\* The handle ACM returns for an import: the handle given for a re-import,
\* a handle not used before for a first import.
ImportedArn(existing, history) ==
    IF existing # NoArn
    THEN existing
    ELSE MaxEntries + 1 +
         Cardinality({k \in DOMAIN history :
                        /\ history[k].op = "import"
                        /\ history[k].ok
                        /\ history[k].arg = NoArn})

(* ------------------------------ results ------------------------------- *)

Result(id, success, skipped, reason, arn, error) ==
    [certificateId |-> id, success |-> success, skipped |-> skipped,
     skipReason |-> reason, acmCertificateArn |-> arn, error |-> error]

DisabledResult(e) == Result(e.id, FALSE, TRUE, SkipDisabled, NoArn, NoError)
NotDueResult(e) ==
    Result(e.id, FALSE, TRUE, SkipNotDue, e.acmCertificateArn, NoError)
DryRunResult(e) == Result(e.id, TRUE, TRUE, SkipDryRun, NoArn, NoError)
SuccessResult(id, arn) == Result(id, TRUE, FALSE, "", arn, NoError)
FailureResult(id, msg) == Result(id, FALSE, FALSE, "", NoArn, msg)

IsSuccess(r) == r.success
IsFailed(r) == ~r.success /\ ~r.skipped
IsSkipped(r) == r.skipped

\* results.filter(...).length for each of the three filters of the summary.
CountSuccess(rs) == Cardinality({k \in DOMAIN rs : IsSuccess(rs[k])})
CountFailed(rs) == Cardinality({k \in DOMAIN rs : IsFailed(rs[k])})
CountSkipped(rs) == Cardinality({k \in DOMAIN rs : IsSkipped(rs[k])})

Response(status, rs, processed, success, failed, skipped) ==
    [statusCode |-> status, results |-> rs, totalProcessed |-> processed,
     totalSuccess |-> success, totalFailed |-> failed,
     totalSkipped |-> skipped]

\* The summary of handleRenewMode, on its success and on its catch path.
RenewResponse(status, rs) ==
    Response(status, rs, Len(rs), CountSuccess(rs), CountFailed(rs),
             CountSkipped(rs))

\* No response has been returned yet.
NoResponse == Response(0, <<>>, 0, 0, 0, 0)

\* needsRenewal was not evaluated by the step just taken.
NoCall ==
    [made |-> FALSE, idx |-> 0, info |-> NullInfo, days |-> 0,
     result |-> FALSE, from |-> ""]

\* needsRenewal(arn of entry i, days) was evaluated on the answer `info`.
\* `from` is the kind of answer of the store that `info` was made from.
Evaluated(i, info, days, result) ==
    [made |-> TRUE, idx |-> i, info |-> info, days |-> days,
     result |-> result,
     from |-> IF info.found THEN "certificate" ELSE "no-certificate"]

\* needsRenewal for entry i threw the lookup failure of the store.
Thrown(i, kind) == [NoCall EXCEPT !.idx = i, !.from = kind]

\* A call on a collaborator for the certificate at position i (0 outside
\* the renew loop), its argument, whether it returned, and the handle it
\* returned if it returns one.
Call(op, i, arg, ok) ==
    [op |-> op, idx |-> i, arg |-> arg, ok |-> ok, ret |-> NoArn]

Returning(call, arn) == [call EXCEPT !.ret = arn]

\* A collaborator raises an error, or answers.
Fault ==
    /\ faults < MaxFaults
    /\ faults' = faults + 1

NoFault == faults' = faults

(* --------------------------- initial states --------------------------- *)

\* What does not depend on the event: nothing has run, the execution
\* environment is fresh.
Fresh ==
    /\ pc = "start"
    /\ config = <<>>
    /\ idx = 1
    /\ results = <<>>
    /\ err = NoError
    /\ response = NoResponse
    /\ localDir = FALSE
    /\ localFiles = {}
    /\ newArn = NoArn
    /\ log = <<>>
    /\ faults = 0
    /\ nrCall = NoCall

InitRegister ==
    /\ mode = "register"
    /\ envOk \in BOOLEAN
    /\ dryRun = FALSE
    /\ filter = NoFilter
    /\ payloadArn = NoArn
    /\ domain = NoDomain
    /\ s3doc = NoDoc
    /\ remote \in {{}, {AccountFile}}

\* certonly presupposes a registered account.
InitCertonly ==
    /\ mode = "certonly"
    /\ envOk \in BOOLEAN
    /\ dryRun = FALSE
    /\ filter = NoFilter
    /\ payloadArn \in {NoArn, PriorArn(1)}
    /\ domain \in PrimaryDomains
    /\ s3doc \in {NoDoc, BadDoc} \cup {d \in Docs : Len(d.certificates) <= 1}
    /\ remote = {AccountFile}

InitRenew ==
    /\ mode = "renew"
    /\ envOk \in BOOLEAN
    /\ dryRun \in BOOLEAN
    /\ filter \in Filters
    /\ payloadArn = NoArn
    /\ domain = NoDomain
    /\ s3doc \in {NoDoc, BadDoc} \cup Docs
    /\ remote = {AccountFile}

InitNoMode ==
    /\ mode \in {"", "bogus"}
    /\ envOk = TRUE
    /\ dryRun = FALSE
    /\ filter = NoFilter
    /\ payloadArn = NoArn
    /\ domain = NoDomain
    /\ s3doc = NoDoc
    /\ remote = {}

Init == Fresh /\ (InitRegister \/ InitCertonly \/ InitRenew \/ InitNoMode)

(* ------------------------------ handler ------------------------------- *)

\* An error thrown inside the try block of a mode handler.
Throw(msg) ==
    /\ pc' = "catch"
    /\ err' = msg

\* The try block goes on with its next step.
Goto(next) ==
    /\ pc' = next
    /\ err' = err

\* A router whose switch has no throwing default: a missing or unknown mode
\* falls into a mode handler.
HandlerWithoutDefault ==
    /\ pc = "start"
    /\ pc' = "env"
    /\ UNCHANGED <<inputs, s3doc, config, idx, results, err, response,
                   localDir, localFiles, remote, newArn, log, faults, nrCall>>

\* handler: route on event.input.mode; a missing or unknown mode throws.
Handler ==
    /\ pc = "start"
    /\ pc' = IF mode \in Modes THEN "env" ELSE "raised"
    /\ UNCHANGED <<inputs, s3doc, config, idx, results, err, response,
                   localDir, localFiles, remote, newArn, log, faults, nrCall>>

\* A check of the environment made inside the try block: its error is
\* caught, notified and cleaned up after.
CheckEnvironmentInsideTry ==
    /\ pc = "env"
    /\ IF envOk
       THEN Goto("init")
       ELSE Throw("Required environment variables are missing")
    /\ UNCHANGED <<inputs, s3doc, config, idx, results, response, localDir,
                   localFiles, remote, newArn, log, faults, nrCall>>

\* The check of CERTIFICATE_BUCKET and SNS_TOPIC_ARN that opens each mode
\* handler: it throws out of the handler, before the try block.
CheckEnvironment ==
    /\ pc = "env"
    /\ pc' = IF envOk THEN "init" ELSE "raised"
    /\ UNCHANGED <<inputs, s3doc, config, idx, results, err, response,
                   localDir, localFiles, remote, newArn, log, faults, nrCall>>

\* The step that follows the pull in each mode handler.
AfterPull(m) ==
    CASE m = "register" -> "register"
      [] m = "certonly" -> "c_obtain"
      [] OTHER -> "loop"

\* A handler that runs the tool right after initialize(), without the pull.
AfterInitializeWithoutPull(m) == AfterPull(m)

\* The step that follows certbotRunner.initialize() in each mode handler.
AfterInitialize(m) == IF m = "renew" THEN "download" ELSE "pull"

\* certbotRunner.initialize(): creates config, work and logs.
Initialize ==
    /\ pc = "init"
    /\ \/ /\ NoFault
          /\ localDir' = TRUE
          /\ log' = Append(log, Call("initialize", 0, "", TRUE))
          /\ Goto(AfterInitialize(mode))
       \/ /\ Fault
          /\ localDir' = localDir
          /\ log' = Append(log, Call("initialize", 0, "", FALSE))
          /\ Throw(ErrInit)
    /\ UNCHANGED <<inputs, s3doc, config, idx, results, response, localFiles,
                   remote, newArn, nrCall>>

\* A handler that takes a document it cannot read or parse as an empty
\* document and goes on with the pass.
DownloadConfigOrGoOn ==
    /\ pc = "download"
    /\ \/ /\ s3doc.kind = "json"
          /\ NoFault
          /\ config' = s3doc.certificates
          /\ log' = Append(log, Call("downloadConfig", 0, "", TRUE))
       \/ /\ s3doc.kind # "json"
          /\ NoFault
          /\ config' = <<>>
          /\ log' = Append(log, Call("downloadConfig", 0, "", FALSE))
       \/ /\ Fault
          /\ config' = <<>>
          /\ log' = Append(log, Call("downloadConfig", 0, "", FALSE))
    /\ Goto("pull")
    /\ UNCHANGED <<inputs, s3doc, idx, results, response, localDir,
                   localFiles, remote, newArn, nrCall>>

\* handleRenewMode: downloadConfig and JSON.parse of the document.
DownloadConfig ==
    /\ pc = "download"
    /\ \/ /\ s3doc.kind = "json"
          /\ NoFault
          /\ config' = s3doc.certificates
          /\ log' = Append(log, Call("downloadConfig", 0, "", TRUE))
          /\ Goto("pull")
       \/ /\ s3doc.kind = "not-json"
          /\ NoFault
          /\ config' = config
          /\ log' = Append(log, Call("downloadConfig", 0, "", TRUE))
          /\ Throw(ErrParse)
       \/ /\ s3doc.kind = "NoSuchKey"
          /\ NoFault
          /\ config' = config
          /\ log' = Append(log, Call("downloadConfig", 0, "", FALSE))
          /\ Throw(ErrS3)
       \/ /\ Fault
          /\ config' = config
          /\ log' = Append(log, Call("downloadConfig", 0, "", FALSE))
          /\ Throw(ErrS3)
    /\ UNCHANGED <<inputs, s3doc, idx, results, response, localDir,
                   localFiles, remote, newArn, nrCall>>

\* s3Manager.syncS3ToDirectory('certbot', configDir): the pull.
SyncS3ToDirectory ==
    /\ pc = "pull"
    /\ localDir' = TRUE
    /\ \/ /\ NoFault
          /\ localFiles' = localFiles \cup remote
          /\ log' = Append(log, Call("pull", 0, remote, TRUE))
          /\ Goto(AfterPull(mode))
       \/ /\ Fault
          /\ localFiles' = localFiles
          /\ log' = Append(log, Call("pull", 0, {}, FALSE))
          /\ Throw(ErrS3)
    /\ UNCHANGED <<inputs, s3doc, config, idx, results, response, remote,
                   newArn, nrCall>>

\* certbotRunner.registerAccount: one run of `certbot register`.
RegisterAccount ==
    /\ pc = "register"
    /\ \/ /\ NoFault
          /\ localFiles' = localFiles \cup {AccountFile}
          /\ log' = Append(log, Call("register", 0, "", TRUE))
          /\ Goto("push")
       \/ /\ Fault
          /\ localFiles' = localFiles
          /\ log' = Append(log, Call("register", 0, "", FALSE))
          /\ Throw(ErrRegister)
    /\ UNCHANGED <<inputs, s3doc, config, idx, results, response, localDir,
                   remote, newArn, nrCall>>

(* ------------------------- certificate manager ------------------------ *)

\* An importCertificate that tags after every import, re-imports included.
AlwaysTagsCertificate(existing) == TRUE

\* if (!existingArn) of importCertificate: only a first import is tagged.
TagsNewCertificate(existing) == existing = NoArn

\* CertificateManager.importCertificate for the certificate at position i
\* (0 for certonly): the calls it makes on ACM, the handle it returns and
\* the error it throws.
ImportOutcomes(i, existing, history) ==
    LET arn == ImportedArn(existing, history)
        sent == Returning(Call("import", i, existing, TRUE), arn)
        refused == Call("import", i, existing, FALSE)
    IN  { [calls |-> <<refused>>, arn |-> NoArn, error |-> ErrAcm],
          [calls |-> <<refused>>, arn |-> NoArn, error |-> ErrNoArn] }
        \cup
        IF TagsNewCertificate(existing)
        THEN { [calls |-> <<sent, Call("tag", i, arn, TRUE)>>,
                arn |-> arn, error |-> NoError],
               [calls |-> <<sent, Call("tag", i, arn, FALSE)>>,
                arn |-> NoArn, error |-> ErrAcm] }
        ELSE { [calls |-> <<sent>>, arn |-> arn, error |-> NoError] }

\* What getCertificateInfo can answer for a handle checked against a
\* threshold of `days`: not found, no expiry, or an expiry on either side
\* of the threshold.  For the threshold of an entry certonly appended the
\* expiries are the ones a 32-bit count of milliseconds can hold, all of
\* them below the threshold.
DescribeAnswers(days) ==
    {NullInfo, NoExpiryInfo} \cup
    { ExpiryInfo(ms) :
        ms \in IF days <= MaxDays
               THEN {-1, days * MS_PER_DAY, days * MS_PER_DAY + 1,
                     (days + 1) * MS_PER_DAY - 1, (days + 1) * MS_PER_DAY}
               ELSE {-1, MS_PER_DAY} }

\* What DescribeCertificate can answer for a handle checked against a
\* threshold of `days`: a response with a certificate record, a response
\* without one, the ResourceNotFoundException, or another failure.
LookupAnswers(days) ==
    { [kind |-> "certificate", info |-> i] :
        i \in DescribeAnswers(days) \ {NullInfo} } \cup
    { [kind |-> k, info |-> NullInfo] :
        k \in {"no-certificate", "ResourceNotFoundException", "error"} }

\* A getCertificateInfo whose catch returns null for every failure.
DescribeOrNull(a) ==
    IF a.kind = "certificate"
    THEN [error |-> NoError, info |-> a.info]
    ELSE [error |-> NoError, info |-> NullInfo]

\* CertificateManager.getCertificateInfo on the answer of the store: the
\* record, null for a response without a record and for the
\* ResourceNotFoundException, and any other failure thrown again.
DescribeCertificate(a) ==
    CASE a.kind = "certificate" -> [error |-> NoError, info |-> a.info]
      [] a.kind \in {"no-certificate", "ResourceNotFoundException"} ->
             [error |-> NoError, info |-> NullInfo]
      [] OTHER -> [error |-> ErrAcm, info |-> NullInfo]

(* ------------------------------ renew mode ---------------------------- *)

\* A loop that does not look at the enabled flag.
NeverDisabled(e) == FALSE

\* if (!certConfig.enabled) of the renew loop.
IsDisabled(e) == ~e.enabled

\* A loop that puts each result in front of the earlier ones.
RecordResultFirst(r) ==
    /\ results' = <<r>> \o results
    /\ idx' = idx + 1
    /\ Goto("loop")

\* A result is pushed and the loop moves to the next entry.
RecordResult(r) ==
    /\ results' = Append(results, r)
    /\ idx' = idx + 1
    /\ Goto("loop")

\* A processCertificate without its catch: the error reaches the catch
\* block of handleRenewMode.
PropagateCertificateError(e, msg) ==
    /\ Throw(msg)
    /\ UNCHANGED <<results, idx>>

\* catch (error) of processCertificate: the error becomes the failure
\* result of the entry.
CatchCertificateError(e, msg) == RecordResult(FailureResult(e.id, msg))

\* The next await of processCertificate.
Continue(next) ==
    /\ Goto(next)
    /\ UNCHANGED <<results, idx>>

\* A loop whose `continue` for an entry the filter leaves out does not move
\* to the next entry.
NextCertificateWithoutAdvance ==
    /\ pc = "loop"
    /\ IF idx > Len(config)
       THEN Continue("push")
       ELSE LET e == config[idx]
            IN  IF IsDisabled(e)
                THEN RecordResult(DisabledResult(e))
                ELSE IF Excluded(filter, e.id)
                THEN Continue("loop")
                ELSE Continue("process")
    /\ nrCall' = NoCall
    /\ UNCHANGED <<inputs, s3doc, config, response, localDir, localFiles,
                   remote, newArn, log, faults>>

\* handleRenewMode: the head of the for loop over config.certificates.
NextCertificate ==
    /\ pc = "loop"
    /\ IF idx > Len(config)
       THEN Continue("push")
       ELSE LET e == config[idx]
            IN  IF IsDisabled(e)
                THEN RecordResult(DisabledResult(e))
                ELSE IF Excluded(filter, e.id)
                THEN /\ idx' = idx + 1
                     /\ results' = results
                     /\ Goto("loop")
                ELSE Continue("process")
    /\ nrCall' = NoCall
    /\ UNCHANGED <<inputs, s3doc, config, response, localDir, localFiles,
                   remote, newArn, log, faults>>

\* The dry-run check of processCertificate and what follows it.
DryRunOrObtain(e) ==
    IF SkipsForDryRun(dryRun)
    THEN RecordResult(DryRunResult(e))
    ELSE Continue("obtain")

\* A processCertificate that makes the dry-run check first: in a dry-run
\* pass no entry is checked for its expiry.
CheckRenewalAfterDryRun ==
    /\ pc = "process"
    /\ LET e == config[idx]
       IN  IF SkipsForDryRun(dryRun)
           THEN /\ NoFault
                /\ log' = log
                /\ nrCall' = NoCall
                /\ RecordResult(DryRunResult(e))
           ELSE IF e.acmCertificateArn # NoArn
           THEN \E a \in LookupAnswers(e.renewDaysBeforeExpiry) :
                  LET got == DescribeCertificate(a)
                      needs ==
                          NeedsRenewal(got.info, e.renewDaysBeforeExpiry)
                  IN  IF got.error # NoError
                      THEN /\ Fault
                           /\ log' = Append(log, Call("needsRenewal", idx,
                                                      e.acmCertificateArn,
                                                      FALSE))
                           /\ nrCall' = Thrown(idx, a.kind)
                           /\ CatchCertificateError(e, got.error)
                      ELSE /\ NoFault
                           /\ log' = Append(log, Call("needsRenewal", idx,
                                                      e.acmCertificateArn,
                                                      TRUE))
                           /\ nrCall' =
                                  [Evaluated(idx, got.info,
                                             e.renewDaysBeforeExpiry, needs)
                                   EXCEPT !.from = a.kind]
                           /\ IF ~needs
                              THEN RecordResult(NotDueResult(e))
                              ELSE Continue("obtain")
           ELSE /\ NoFault
                /\ log' = log
                /\ nrCall' = NoCall
                /\ Continue("obtain")
    /\ UNCHANGED <<inputs, s3doc, config, response, localDir, localFiles,
                   remote, newArn>>

\* processCertificate up to the call of obtainCertificate: the expiry check
\* of an entry that has a handle, then the dry-run check.
CheckRenewal ==
    /\ pc = "process"
    /\ LET e == config[idx]
       IN  IF e.acmCertificateArn # NoArn
           THEN \E a \in LookupAnswers(e.renewDaysBeforeExpiry) :
                  LET got == DescribeCertificate(a)
                      needs ==
                          NeedsRenewal(got.info, e.renewDaysBeforeExpiry)
                  IN  IF got.error # NoError
                      THEN /\ Fault
                           /\ log' = Append(log, Call("needsRenewal", idx,
                                                      e.acmCertificateArn,
                                                      FALSE))
                           /\ nrCall' = Thrown(idx, a.kind)
                           /\ CatchCertificateError(e, got.error)
                      ELSE /\ NoFault
                           /\ log' = Append(log, Call("needsRenewal", idx,
                                                      e.acmCertificateArn,
                                                      TRUE))
                           /\ nrCall' =
                                  [Evaluated(idx, got.info,
                                             e.renewDaysBeforeExpiry, needs)
                                   EXCEPT !.from = a.kind]
                           /\ IF ~needs
                              THEN RecordResult(NotDueResult(e))
                              ELSE DryRunOrObtain(e)
           ELSE /\ NoFault
                /\ log' = log
                /\ nrCall' = NoCall
                /\ DryRunOrObtain(e)
    /\ UNCHANGED <<inputs, s3doc, config, response, localDir, localFiles,
                   remote, newArn>>

\* certbotRunner.obtainCertificate(config): one run of `certbot certonly`
\* and the resolution of its output paths.
ObtainCertificate ==
    /\ pc = "obtain"
    /\ LET e == config[idx]
       IN  \/ /\ NoFault
              /\ log' = Append(log, Call("obtain", idx, ForceRenewal(e), TRUE))
              /\ localFiles' = localFiles \cup {LineageFile}
              /\ Continue("backup")
           \/ /\ Fault
              /\ log' = Append(log, Call("obtain", idx, ForceRenewal(e), FALSE))
              /\ localFiles' = localFiles
              /\ CatchCertificateError(e, ErrCertbot)
    /\ nrCall' = NoCall
    /\ UNCHANGED <<inputs, s3doc, config, response, localDir, remote, newArn>>

\* A processCertificate that logs a failure of the backup and goes on to the
\* import.
SaveCertificateBackupOrGoOn ==
    /\ pc = "backup"
    /\ LET e == config[idx]
       IN  \/ /\ NoFault
              /\ log' = Append(log, Call("backup", idx, e.id, TRUE))
              /\ Continue("import")
           \/ /\ Fault
              /\ log' = Append(log, Call("backup", idx, e.id, FALSE))
              /\ Continue("import")
    /\ UNCHANGED <<inputs, s3doc, config, response, localDir, localFiles,
                   remote, newArn, nrCall>>

\* s3Manager.saveCertificateBackup of processCertificate.
SaveCertificateBackup ==
    /\ pc = "backup"
    /\ LET e == config[idx]
       IN  \/ /\ NoFault
              /\ log' = Append(log, Call("backup", idx, e.id, TRUE))
              /\ Continue("import")
           \/ /\ Fault
              /\ log' = Append(log, Call("backup", idx, e.id, FALSE))
              /\ CatchCertificateError(e, ErrS3)
    /\ UNCHANGED <<inputs, s3doc, config, response, localDir, localFiles,
                   remote, newArn, nrCall>>

\* certificateManager.importCertificate of processCertificate.
ImportCertificate ==
    /\ pc = "import"
    /\ LET e == config[idx]
       IN  \E o \in ImportOutcomes(idx, e.acmCertificateArn, log) :
             /\ log' = log \o o.calls
             /\ IF o.error = NoError
                THEN /\ NoFault
                     /\ newArn' = o.arn
                     /\ Continue("describe")
                ELSE /\ Fault
                     /\ newArn' = newArn
                     /\ CatchCertificateError(e, o.error)
    /\ UNCHANGED <<inputs, s3doc, config, response, localDir, localFiles,
                   remote, nrCall>>

\* certificateManager.getCertificateInfo(acmArn) of processCertificate and
\* the success result.
GetCertificateInfo ==
    /\ pc = "describe"
    /\ LET e == config[idx]
       IN  \/ /\ NoFault
              /\ log' = Append(log, Call("describe", idx, newArn, TRUE))
              /\ RecordResult(SuccessResult(e.id, newArn))
           \/ /\ Fault
              /\ log' = Append(log, Call("describe", idx, newArn, FALSE))
              /\ CatchCertificateError(e, ErrAcm)
    /\ newArn' = NoArn
    /\ UNCHANGED <<inputs, s3doc, config, response, localDir, localFiles,
                   remote, nrCall>>

(* ---------------------------- certonly mode --------------------------- *)

\* certbotRunner.obtainCertificateFromPayload(event).
ObtainCertificateFromPayload ==
    /\ pc = "c_obtain"
    /\ \/ /\ NoFault
          /\ log' = Append(log, Call("obtain", 0, FALSE, TRUE))
          /\ localFiles' = localFiles \cup {LineageFile}
          /\ Goto("c_backup")
       \/ /\ Fault
          /\ log' = Append(log, Call("obtain", 0, FALSE, FALSE))
          /\ localFiles' = localFiles
          /\ Throw(ErrCertbot)
    /\ UNCHANGED <<inputs, s3doc, config, idx, results, response, localDir,
                   remote, newArn, nrCall>>

\* s3Manager.saveCertificateBackup of handleCertonlyMode.
SaveManualBackup ==
    /\ pc = "c_backup"
    /\ \/ /\ NoFault
          /\ log' = Append(log, Call("backup", 0, ManualId, TRUE))
          /\ Goto("c_import")
       \/ /\ Fault
          /\ log' = Append(log, Call("backup", 0, ManualId, FALSE))
          /\ Throw(ErrS3)
    /\ UNCHANGED <<inputs, s3doc, config, idx, results, response, localDir,
                   localFiles, remote, newArn, nrCall>>

\* certificateManager.importCertificate of handleCertonlyMode.
ImportManualCertificate ==
    /\ pc = "c_import"
    /\ \E o \in ImportOutcomes(0, payloadArn, log) :
         /\ log' = log \o o.calls
         /\ IF o.error = NoError
            THEN /\ NoFault
                 /\ newArn' = o.arn
                 /\ Goto("c_describe")
            ELSE /\ Fault
                 /\ newArn' = newArn
                 /\ Throw(o.error)
    /\ UNCHANGED <<inputs, s3doc, config, idx, results, response, localDir,
                   localFiles, remote, nrCall>>

\* certificateManager.getCertificateInfo(acmArn) of handleCertonlyMode.
GetManualCertificateInfo ==
    /\ pc = "c_describe"
    /\ \/ /\ NoFault
          /\ log' = Append(log, Call("describe", 0, newArn, TRUE))
          /\ Goto("push")
       \/ /\ Fault
          /\ log' = Append(log, Call("describe", 0, newArn, FALSE))
          /\ Throw(ErrAcm)
    /\ UNCHANGED <<inputs, s3doc, config, idx, results, response, localDir,
                   localFiles, remote, newArn, nrCall>>

\* The CertificateConfig handleCertonlyMode appends.
NewCertConfig(arn) ==
    [id |-> ManualId, enabled |-> TRUE, acmCertificateArn |-> arn,
     renewDaysBeforeExpiry |-> DefaultRenewDays]

\* handleCertonlyMode: the document is downloaded and parsed, any failure
\* of either starts an empty document; the new entry is appended.
ReadConfig ==
    /\ pc = "readConfig"
    /\ \/ /\ s3doc.kind = "json"
          /\ NoFault
          /\ config' = Append(s3doc.certificates, NewCertConfig(newArn))
          /\ log' = Append(log, Call("downloadConfig", 0, "", TRUE))
       \/ /\ s3doc.kind # "json"
          /\ NoFault
          /\ config' = <<NewCertConfig(newArn)>>
          /\ log' = Append(log, Call("downloadConfig", 0, "", FALSE))
       \/ /\ Fault
          /\ config' = <<NewCertConfig(newArn)>>
          /\ log' = Append(log, Call("downloadConfig", 0, "", FALSE))
    /\ Goto("writeConfig")
    /\ UNCHANGED <<inputs, s3doc, idx, results, response, localDir,
                   localFiles, remote, newArn, nrCall>>

\* handleCertonlyMode: uploadFile of the whole document.
WriteConfig ==
    /\ pc = "writeConfig"
    /\ \/ /\ NoFault
          /\ s3doc' = Doc(config)
          /\ log' = Append(log, Call("uploadConfig", 0, "", TRUE))
          /\ Goto("notify")
       \/ /\ Fault
          /\ s3doc' = s3doc
          /\ log' = Append(log, Call("uploadConfig", 0, "", FALSE))
          /\ Throw(ErrS3)
    /\ UNCHANGED <<inputs, config, idx, results, response, localDir,
                   localFiles, remote, newArn, nrCall>>

(* --------------------- push, notification, cleanup -------------------- *)

\* The step that follows the push in each mode handler.
AfterPush(m) == IF m = "certonly" THEN "readConfig" ELSE "notify"

\* s3Manager.syncDirectoryToS3(configDir, 'certbot'): the push.  It uploads
\* every file of the directory and skips a directory that does not exist.
SyncDirectoryToS3 ==
    /\ pc = "push"
    /\ IF ~localDir
       THEN /\ NoFault
            /\ log' = Append(log, Call("push", 0, {}, TRUE))
            /\ remote' = remote
            /\ Goto(AfterPush(mode))
       ELSE \/ /\ NoFault
               /\ log' = Append(log, Call("push", 0, localFiles, TRUE))
               /\ remote' = remote \cup localFiles
               /\ Goto(AfterPush(mode))
            \/ /\ Fault
               /\ log' = Append(log, Call("push", 0, {}, FALSE))
               /\ remote' = remote
               /\ Throw(ErrS3)
    /\ UNCHANGED <<inputs, s3doc, config, idx, results, response, localDir,
                   localFiles, newArn, nrCall>>

\* The response of the success path of each mode handler.
SuccessResponse ==
    CASE mode = "register" -> Response(200, <<>>, 0, 1, 0, 0)
      [] mode = "certonly" ->
           Response(200, <<SuccessResult(ManualId, newArn)>>, 1, 1, 0, 0)
      [] OTHER -> RenewResponse(200, results)

\* The response of the catch block of each mode handler.
ErrorResponse ==
    CASE mode = "register" -> Response(500, <<>>, 0, 0, 1, 0)
      [] mode = "certonly" ->
           Response(500, <<FailureResult(ManualId, err)>>, 1, 0, 1, 0)
      [] OTHER -> RenewResponse(500, results)

\* A notifier whose publish lets the failure of SNS through: the try block
\* ends in the catch block.
NotifySuccessOrThrow ==
    /\ pc = "notify"
    /\ \/ /\ log' = Append(log, Call("notify", 0, "", TRUE))
          /\ response' = SuccessResponse
          /\ Goto("finally")
       \/ /\ log' = Append(log, Call("notify", 0, "", FALSE))
          /\ response' = response
          /\ Throw("SNS error")
    /\ UNCHANGED <<inputs, s3doc, config, idx, results, localDir, localFiles,
                   remote, newArn, faults, nrCall>>

\* notifier.sendSuccess / sendRenewalSummary, then the return of the try
\* block.  publish swallows a failure of SNS.
NotifySuccess ==
    /\ pc = "notify"
    /\ \E sent \in BOOLEAN : log' = Append(log, Call("notify", 0, "", sent))
    /\ response' = SuccessResponse
    /\ Goto("finally")
    /\ UNCHANGED <<inputs, s3doc, config, idx, results, localDir, localFiles,
                   remote, newArn, faults, nrCall>>

\* A catch block whose return leaves the handler without the finally block.
CatchErrorWithoutFinally ==
    /\ pc = "catch"
    /\ \E sent \in BOOLEAN :
         log' = Append(log, Call("notifyError", 0, "", sent))
    /\ response' = ErrorResponse
    /\ Goto("done")
    /\ UNCHANGED <<inputs, s3doc, config, idx, results, localDir, localFiles,
                   remote, newArn, faults, nrCall>>

\* The catch block of a mode handler: notifier.sendError, then the return.
CatchError ==
    /\ pc = "catch"
    /\ \E sent \in BOOLEAN :
         log' = Append(log, Call("notifyError", 0, "", sent))
    /\ response' = ErrorResponse
    /\ Goto("finally")
    /\ UNCHANGED <<inputs, s3doc, config, idx, results, localDir, localFiles,
                   remote, newArn, faults, nrCall>>

\* The finally block: certbotRunner.cleanup() removes the ephemeral root and
\* swallows a failure to do so.
Cleanup ==
    /\ pc = "finally"
    /\ \/ /\ localDir' = FALSE
          /\ localFiles' = {}
          /\ log' = Append(log, Call("cleanup", 0, "", TRUE))
       \/ /\ UNCHANGED <<localDir, localFiles>>
          /\ log' = Append(log, Call("cleanup", 0, "", FALSE))
    /\ Goto("done")
    /\ UNCHANGED <<inputs, s3doc, config, idx, results, response, remote,
                   newArn, faults, nrCall>>

(* --------------------------- specifications --------------------------- *)

Next ==
    \/ Handler
    \/ CheckEnvironment
    \/ Initialize
    \/ DownloadConfig
    \/ SyncS3ToDirectory
    \/ RegisterAccount
    \/ NextCertificate
    \/ CheckRenewal
    \/ ObtainCertificate
    \/ SaveCertificateBackup
    \/ ImportCertificate
    \/ GetCertificateInfo
    \/ ObtainCertificateFromPayload
    \/ SaveManualBackup
    \/ ImportManualCertificate
    \/ GetManualCertificateInfo
    \/ ReadConfig
    \/ WriteConfig
    \/ SyncDirectoryToS3
    \/ NotifySuccess
    \/ CatchError
    \/ Cleanup

\* One invocation of the handler.
Spec == Init /\ [][Next]_vars

(* ------------------ the renewal decision on its own ------------------- *)

\* renewDaysBeforeExpiry: 0, the small values, and a very large one.
LargeDays == 24 * MS_PER_DAY
Thresholds == 0..MaxDays \cup {LargeDays}

\* Answers of getCertificateInfo: not found, no expiry, and expiries from
\* MaxDays + 1 days ago to MaxDays + 1 days ahead, on and around the day
\* boundaries.
StoreAnswers ==
    {NullInfo, NoExpiryInfo} \cup
    { ExpiryInfo(k * MS_PER_DAY + o) :
        k \in -(MaxDays + 1)..(MaxDays + 1),
        o \in {-1, 0, 1, MS_PER_DAY \div 2} }

InitNeedsRenewal ==
    /\ pc = "idle"
    /\ mode = ""
    /\ envOk = TRUE
    /\ dryRun = FALSE
    /\ filter = NoFilter
    /\ payloadArn = NoArn
    /\ domain = NoDomain
    /\ s3doc = NoDoc
    /\ remote = {}
    /\ config = <<>>
    /\ idx = 1
    /\ results = <<>>
    /\ err = NoError
    /\ response = NoResponse
    /\ localDir = FALSE
    /\ localFiles = {}
    /\ newArn = NoArn
    /\ log = <<>>
    /\ faults = 0
    /\ nrCall = NoCall

\* certificateManager.needsRenewal(arn, days) on one answer of the store.
EvalNeedsRenewal ==
    /\ pc = "idle"
    /\ \E info \in StoreAnswers, days \in Thresholds :
         nrCall' = Evaluated(0, info, days, NeedsRenewal(info, days))
    /\ UNCHANGED <<inputs, pc, s3doc, config, idx, results, err, response,
                   localDir, localFiles, remote, newArn, log, faults>>

NextNeedsRenewal == EvalNeedsRenewal

SpecNeedsRenewal == InitNeedsRenewal /\ [][NextNeedsRenewal]_vars

(* ------------------------------- claims ------------------------------- *)

\* A run of the external issuance tool (certbot register, certbot certonly).
IsToolRun(c) == c.op \in {"register", "obtain"}

\* The positions of the calls of `op` made for the certificate at position i.
CallsOf(op, i) == {j \in DOMAIN log : log[j].op = op /\ log[j].idx = i}

\* The positions of the results recorded for the entry at position i.
ResultsOf(i) ==
    {k \in DOMAIN results : results[k].certificateId = config[i].id}

\* The renew loop has gone past the entry at position i.
Passed(i) == mode = "renew" /\ i \in DOMAIN config /\ i < idx

\* C1: in every invocation that runs the issuance tool, the push of the
\* account state is executed after the last run of the tool and before the
\* invocation returns, whatever step fails.
C1_PushFollowsLastToolRun ==
    pc = "done" =>
        \A j \in DOMAIN log :
            IsToolRun(log[j]) =>
                \E k \in DOMAIN log : k > j /\ log[k].op = "push"

\* C2: in every mode, a successful pull of the account-state prefix
\* precedes every run of the issuance tool.
C2_PullPrecedesTool ==
    \A j \in DOMAIN log :
        IsToolRun(log[j]) =>
            \E k \in 1..(j - 1) : log[k].op = "pull" /\ log[k].ok

\* The tool has run in a renew pass and the invocation has returned.
C2_Witness ==
    /\ mode = "renew"
    /\ pc = "done"
    /\ \E j \in DOMAIN log : IsToolRun(log[j])

\* The calls made for the entry at position i that threw.
FailedCallsOf(i) == {j \in DOMAIN log : log[j].idx = i /\ ~log[j].ok}

\* The messages of the errors a failing step of processCertificate throws.
StepErrors(op) ==
    CASE op = "obtain" -> {ErrCertbot}
      [] op = "backup" -> {ErrS3}
      [] op = "import" -> {ErrAcm, ErrNoArn}
      [] OTHER -> {ErrAcm}

\* The enabled entries the filter of the event includes.
Included(i) ==
    /\ i \in DOMAIN config
    /\ config[i].enabled
    /\ ~Excluded(filter, config[i].id)

\* The entries at least one of whose calls threw.
FailedEntries == {i \in DOMAIN config : FailedCallsOf(i) # {}}

\* C3: in a renew pass an exception thrown while processing one entry (by
\* needsRenewal, obtain, backup, import or describe) becomes a failure result
\* of that entry carrying the error message; the loop goes on to the other
\* enabled, filter-included entries, each of which gets its one result, and
\* the summary counts exactly the entries that threw as failed (one failing
\* obtain in a batch of three gives totalFailed = 1).
C3_FailureIsIsolated ==
    mode = "renew" =>
        /\ \A i \in DOMAIN config :
               LET recorded == ResultsOf(i)
               IN  \A j \in FailedCallsOf(i) :
                       /\ Passed(i)
                       /\ \A k \in recorded :
                              /\ IsFailed(results[k])
                              /\ results[k].error \in StepErrors(log[j].op)
        /\ \A i \in DOMAIN config :
               LET recorded == ResultsOf(i)
               IN  Passed(i) /\ Included(i) =>
                       /\ Cardinality(recorded) = 1
                       /\ FailedCallsOf(i) = {} =>
                              \A k \in recorded : ~IsFailed(results[k])
        /\ pc \in {"push", "notify"} => idx = Len(config) + 1
        /\ response.statusCode = 200 =>
               /\ response.totalFailed = Cardinality(FailedEntries)
               /\ response.totalProcessed = Len(results)
               /\ \A i \in DOMAIN config : Included(i) => ResultsOf(i) # {}

\* A batch of three enabled entries, the tool failing for the second one
\* only: the pass returns three results, one of them failed.
C3_Witness ==
    /\ mode = "renew"
    /\ pc = "done"
    /\ Len(config) = 3
    /\ \A i \in DOMAIN config : Included(i)
    /\ FailedEntries = {2}
    /\ \E j \in FailedCallsOf(2) : log[j].op = "obtain"
    /\ response.statusCode = 200
    /\ response.totalFailed = 1
    /\ response.totalProcessed = 3
    /\ \E j \in CallsOf("obtain", 3) : log[j].ok

\* C4: each entry with enabled = false gets exactly one skipped result whose
\* reason is the 'disabled' one, and no needsRenewal, obtain, backup or
\* import call is ever made for it, whatever the filter and dry-run flag.
C4_DisabledIsSkipped ==
    mode = "renew" =>
        \A i \in DOMAIN config :
            ~config[i].enabled =>
                /\ \A j \in DOMAIN log : log[j].idx # i
                /\ Passed(i) =>
                       /\ Cardinality(ResultsOf(i)) = 1
                       /\ \A k \in ResultsOf(i) :
                              /\ results[k].skipped
                              /\ ~results[k].success
                              /\ results[k].skipReason = SkipDisabled

\* A disabled entry that the filter of a dry run leaves out has its result.
C4_Witness ==
    /\ mode = "renew"
    /\ pc = "done"
    /\ dryRun
    /\ filter.present
    /\ \E i \in DOMAIN config :
           /\ ~config[i].enabled
           /\ config[i].id \notin filter.ids
           /\ ResultsOf(i) # {}

\* needsRenewal was just evaluated on a record that carries an expiry.
EvaluatedOnExpiry ==
    nrCall.made /\ nrCall.info.found /\ nrCall.info.hasExpiry

\* The entry needsRenewal was just evaluated for was skipped as not yet due,
\* its result carrying the handle of the entry unchanged.
SkippedAsNotDue ==
    /\ pc = "loop"
    /\ nrCall.idx \in DOMAIN config
    /\ idx = nrCall.idx + 1
    /\ results # <<>>
    /\ LET r == results[Len(results)]
           e == config[nrCall.idx]
       IN  /\ r.certificateId = e.id
           /\ r.skipped
           /\ r.skipReason = SkipNotDue
           /\ r.acmCertificateArn = e.acmCertificateArn

\* No entry skipped as not yet due was obtained or imported.
NotDueIsUntouched ==
    \A i \in DOMAIN config :
        \A k \in ResultsOf(i) :
            results[k].skipReason = SkipNotDue =>
                /\ CallsOf("obtain", i) = {}
                /\ CallsOf("import", i) = {}
                /\ results[k].acmCertificateArn = config[i].acmCertificateArn

C6_NoExpiryNeedsRenewal ==
    nrCall.made /\ (~nrCall.info.found \/ ~nrCall.info.hasExpiry)
        => nrCall.result

\* A record without an expiry has been checked against the threshold zero.
C6_Witness ==
    /\ pc = "idle"
    /\ nrCall.made
    /\ nrCall.info.found
    /\ ~nrCall.info.hasExpiry
    /\ nrCall.days = 0
    /\ nrCall.result

\* The whole days in ms milliseconds, rounded toward minus infinity: the q
\* with q days <= ms < q + 1 days.
FloorDays(ms) ==
    CHOOSE q \in -(MaxDays + 2)..(MaxDays + 2) :
        q * MS_PER_DAY <= ms /\ ms < (q + 1) * MS_PER_DAY

\* C7: when the record carries an expiry, needsRenewal returns true exactly
\* when floor((notAfter - now) / 1 day) <= thresholdDays, the floor rounding
\* toward minus infinity, so that an expired certificate is always renewed
\* for a threshold >= 0.
C7_RenewalIffFloorWithinThreshold ==
    EvaluatedOnExpiry =>
        /\ nrCall.result <=> FloorDays(nrCall.info.expiresIn) <= nrCall.days
        /\ nrCall.info.expiresIn < 0 => nrCall.result

\* A certificate with one millisecond less than thresholdDays + 1 days left
\* is renewed: the partial day is rounded down.
C7_Witness ==
    /\ pc = "idle"
    /\ EvaluatedOnExpiry
    /\ nrCall.days = 1
    /\ nrCall.info.expiresIn = 2 * MS_PER_DAY - 1
    /\ nrCall.result

\* C8: with dryRun = true the obtain call of the tool is never made, for
\* any entry.
C8_DryRunNeverObtains ==
    mode = "renew" /\ dryRun =>
        \A j \in DOMAIN log : log[j].op # "obtain"

\* A dry run has skipped an entry without a handle and an entry whose
\* handle is due for renewal.
C8_Witness ==
    /\ mode = "renew"
    /\ dryRun
    /\ pc = "done"
    /\ \E i \in DOMAIN config :
           /\ config[i].acmCertificateArn = NoArn
           /\ \E k \in ResultsOf(i) : results[k].skipReason = SkipDryRun
    /\ \E i \in DOMAIN config :
           /\ config[i].acmCertificateArn # NoArn
           /\ \E k \in ResultsOf(i) : results[k].skipReason = SkipDryRun

\* A call that writes to the object store or to the certificate store.
IsWrite(c) ==
    \/ c.op \in {"backup", "uploadConfig", "import", "tag"}
    \/ c.op = "push" /\ c.ok /\ c.arg # {}

\* C9: a renew pass with dryRun = true makes no writes: no backup, no
\* write of the configuration document, no upload of the account state, no
\* import and no tagging.
C9_DryRunWritesNothing ==
    mode = "renew" /\ dryRun =>
        \A j \in DOMAIN log : ~IsWrite(log[j])

\* C10: in a renew pass that is not a dry run, an enabled entry without a
\* prior handle has the tool run exactly once with forceRenewal = false and
\* the import made once without an existing handle, and its success result
\* carries the handle the import returned; in general forceRenewal is true
\* exactly when the entry has a prior handle.
C10_FirstIssuance ==
    mode = "renew" =>
        \A i \in DOMAIN config :
            LET obtains == CallsOf("obtain", i)
                imports == CallsOf("import", i)
                recorded == ResultsOf(i)
            IN  /\ \A j \in obtains :
                       log[j].arg <=> config[i].acmCertificateArn # NoArn
                /\ \A j \in imports :
                       log[j].arg = config[i].acmCertificateArn
                /\ Cardinality(obtains) <= 1
                /\ Cardinality(imports) <= 1
                /\ \A k \in recorded :
                       results[k].success /\ ~results[k].skipped =>
                           /\ \E j \in obtains : log[j].ok
                           /\ \E j \in imports :
                                  /\ log[j].ok
                                  /\ log[j].ret # NoArn
                                  /\ log[j].ret = results[k].acmCertificateArn
                /\ (/\ Passed(i)
                    /\ Included(i)
                    /\ ~dryRun
                    /\ config[i].acmCertificateArn = NoArn
                    /\ FailedCallsOf(i) = {})
                   => /\ recorded # {}
                      /\ \A k \in recorded :
                             results[k].success /\ ~results[k].skipped

\* A pass over one enabled entry without a handle has returned its success.
C10_Witness ==
    /\ mode = "renew"
    /\ pc = "done"
    /\ ~dryRun
    /\ Len(config) = 1
    /\ Included(1)
    /\ config[1].acmCertificateArn = NoArn
    /\ Len(results) = 1
    /\ results[1].success
    /\ ~results[1].skipped
    /\ \E j \in CallsOf("obtain", 1) : log[j].ok /\ ~log[j].arg
    /\ \E j \in CallsOf("import", 1) :
           /\ log[j].arg = NoArn
           /\ log[j].ret = results[1].acmCertificateArn
    /\ response.totalSuccess = 1

\* C11: after a renew pass has imported a certificate for an entry whose
\* handle was null, the entry of the stored configuration document carries
\* the handle the import returned.
C11_HandleIsWrittenBack ==
    mode = "renew" /\ pc = "done" =>
        \A i \in DOMAIN config :
            \A k \in ResultsOf(i) :
                (/\ config[i].acmCertificateArn = NoArn
                 /\ results[k].success
                 /\ ~results[k].skipped)
                => /\ s3doc.kind = "json"
                   /\ i \in DOMAIN s3doc.certificates
                   /\ s3doc.certificates[i].acmCertificateArn
                          = results[k].acmCertificateArn

\* The existingArn argument of the importCertificate call made for the
\* certificate at position i (0: the certonly payload).
GivenHandle(i) == IF i = 0 THEN payloadArn ELSE config[i].acmCertificateArn

\* The call at position j of the log is followed by the tagging call.
TagFollows(j) == j + 1 \in DOMAIN log /\ log[j + 1].op = "tag"

\* C12: importCertificate passes the existing handle to the import operation
\* of the store when there is one, tags the resulting entry exactly when no
\* existing handle was given and the store returned a handle, and fails
\* with an error, without tagging, when the store returns no handle.
C12_ImportTagsFirstImportOnly ==
    /\ \A j \in DOMAIN log :
           log[j].op = "import" =>
               /\ log[j].arg = GivenHandle(log[j].idx)
               /\ TagFollows(j) <=> (log[j].ok /\ log[j].arg = NoArn)
               /\ TagFollows(j) =>
                      /\ log[j + 1].arg = log[j].ret
                      /\ log[j + 1].idx = log[j].idx
                      /\ log[j].ret # NoArn
    /\ \A j \in DOMAIN log :
           log[j].op = "tag" => j - 1 \in DOMAIN log /\ log[j - 1].op = "import"
    /\ err = ErrNoArn =>
           /\ \E j \in FailedCallsOf(0) : log[j].op = "import"
           /\ CallsOf("tag", 0) = {}
    /\ mode = "renew" =>
           \A i \in DOMAIN config :
               \A k \in ResultsOf(i) :
                   results[k].error = ErrNoArn =>
                       /\ IsFailed(results[k])
                       /\ \E j \in FailedCallsOf(i) : log[j].op = "import"
                       /\ CallsOf("tag", i) = {}

\* One pass has made a first import that was tagged, a re-import that was
\* not, and an import for which the store returned no handle.
C12_Witness ==
    /\ mode = "renew"
    /\ pc = "done"
    /\ \E j \in DOMAIN log :
           /\ log[j].op = "import"
           /\ log[j].ok
           /\ log[j].arg = NoArn
           /\ TagFollows(j)
    /\ \E j \in DOMAIN log :
           /\ log[j].op = "import"
           /\ log[j].ok
           /\ log[j].arg # NoArn
           /\ ~TagFollows(j)
    /\ \E k \in DOMAIN results : results[k].error = ErrNoArn

(* ---------------- consecutive invocations in one environment ---------- *)

\* The first invocation of an execution environment, over a document of at
\* most one entry.
InitInvocations ==
    /\ Init
    /\ envOk
    /\ filter = NoFilter
    /\ Len(s3doc.certificates) <= 1

\* The mark that opens the history of the second invocation.
Invoked == Call("invoke", 0, "", TRUE)

\* The events of a second invocation in mode m.
NextEvent(m) ==
    /\ mode' = m
    /\ envOk' = TRUE
    /\ filter' = NoFilter
    /\ dryRun' \in (IF m = "renew" THEN BOOLEAN ELSE {FALSE})
    /\ payloadArn' \in (IF m = "certonly" THEN {NoArn, PriorArn(1)} ELSE {NoArn})
    /\ domain' \in (IF m = "certonly" THEN PrimaryDomains ELSE {NoDomain})

\* The execution environment that has returned from its first invocation
\* receives the next event: the handler starts again, the bucket and the
\* file system of the environment are as the first invocation left them.
Reinvoke ==
    /\ pc = "done"
    /\ log # <<>>
    /\ log[1] # Invoked
    /\ \E m \in Modes : NextEvent(m)
    /\ pc' = "start"
    /\ config' = <<>>
    /\ idx' = 1
    /\ results' = <<>>
    /\ err' = NoError
    /\ response' = NoResponse
    /\ newArn' = NoArn
    /\ nrCall' = NoCall
    /\ log' = <<Invoked>>
    /\ UNCHANGED <<s3doc, remote, localDir, localFiles, faults>>

NextInvocations == Next \/ Reinvoke

SpecInvocations == InitInvocations /\ [][NextInvocations]_vars

\* The ids of the entries of the stored document are pairwise distinct.
UniqueIds(doc) ==
    \A i, j \in DOMAIN doc.certificates :
        i # j => doc.certificates[i].id # doc.certificates[j].id

\* C13: after any sequence of successful certonly invocations that starts
\* from a document with unique ids, the ids of the entries of the
\* configuration document are pairwise distinct, also when two invocations
\* name the same primary domain or primary domains that differ only in
\* non-alphanumeric characters.
C13_IdsStayDistinct == UniqueIds(s3doc)

\* The step of a certonly invocation that writes the configuration document
\* and goes on to the success path.
WritesDocument == pc = "writeConfig" /\ pc' = "notify"

\* C14: the document a successful certonly invocation writes consists of
\* the entries of the previously stored document, in unchanged order and
\* content (none when no document existed), followed by exactly one new
\* entry that is enabled, has the renewal threshold 30 and carries the
\* handle the import returned.
C14_AppendsOneEntry ==
    [][WritesDocument =>
           s3doc' = Doc(Append(s3doc.certificates,
                               [id |-> CertId(domain),
                                enabled |-> TRUE,
                                acmCertificateArn |-> newArn,
                                renewDaysBeforeExpiry |-> DefaultRenewDays]))
      ]_vars

\* C15: on every path past the precondition checks, whether the try block
\* succeeded or a tool, store or sync step failed, cleanup of the ephemeral
\* root runs exactly once, as the last step before the invocation returns;
\* it never raises, and its failure leaves the returned response as the try
\* or catch block made it.
C15_CleanupIsLast ==
    /\ pc = "done" =>
           /\ Cardinality(CallsOf("cleanup", 0)) = 1
           /\ log[Len(log)].op = "cleanup"
           /\ response =
                  IF err = NoError THEN SuccessResponse ELSE ErrorResponse
           /\ response.statusCode = IF err = NoError THEN 200 ELSE 500
    /\ pc # "done" => CallsOf("cleanup", 0) = {}
    /\ pc \in {"catch", "notify", "finally"} => <<>> # log

\* An invocation whose tool run failed has returned its error response
\* after a cleanup that failed.
C15_Witness ==
    /\ pc = "done"
    /\ err = ErrCertbot
    /\ response.statusCode = 500
    /\ log[Len(log)].op = "cleanup"
    /\ ~log[Len(log)].ok
    /\ localDir

\* C16: no file of the ephemeral root of one invocation is visible in the
\* working tree of the next invocation of the same environment unless the
\* pull of that invocation downloaded it: right after a pull the working
\* tree holds the downloaded files only.
C16_WorkingTreeIsPulled ==
    (/\ log # <<>>
     /\ log[Len(log)].op = "pull"
     /\ log[Len(log)].ok)
    => localFiles \subseteq log[Len(log)].arg

\* C17: when the bucket name or the notification topic is missing from the
\* environment, the mode handler raises before any side effect: no working
\* directory is created, and no call is made on the object store, the
\* issuance tool, the certificate store or the notifier.
C17_MissingEnvironmentRaisesFirst ==
    ~envOk =>
        /\ pc \in {"start", "env", "raised"}
        /\ log = <<>>
        /\ ~localDir
        /\ localFiles = {}
        /\ response = NoResponse
        /\ err = NoError

\* A renew invocation without its environment has raised.
C17_Witness ==
    /\ ~envOk
    /\ mode = "renew"
    /\ pc = "raised"

\* The publish calls of the invocation: the success or summary notification
\* and the error notification.
Publishes == {j \in DOMAIN log : log[j].op \in {"notify", "notifyError"}}

\* C18: the response an invocation returns is the same whether the publish
\* of its notification succeeds or fails: a failed publish is swallowed, the
\* success path stays a success and the error path stays the error it was.
C18_PublishFailureIsSwallowed ==
    /\ Cardinality(Publishes) <= 1
    /\ \A j \in Publishes :
           /\ pc \in {"finally", "done"}
           /\ log[j].op = "notify" <=> err = NoError
           /\ response =
                  IF log[j].op = "notify"
                  THEN SuccessResponse
                  ELSE ErrorResponse
           /\ response.statusCode = IF log[j].op = "notify" THEN 200 ELSE 500

\* A renew pass whose summary could not be published has returned its
\* success response with the results of the pass.
C18_Witness ==
    /\ pc = "done"
    /\ mode = "renew"
    /\ \E j \in Publishes : log[j].op = "notify" /\ ~log[j].ok
    /\ response.statusCode = 200
    /\ response.results = results
    /\ response.totalSuccess > 0

\* C19: when a register or certonly invocation fails after the precondition
\* checks, the response has statusCode 500 and its results list holds
\* exactly one result, a failure (success = false, not skipped) carrying the
\* error message, with totalFailed = 1.
C19_SoleFailedResult ==
    (/\ mode \in {"register", "certonly"}
     /\ pc = "done"
     /\ err # NoError)
    => /\ response.statusCode = 500
       /\ response.totalFailed = 1
       /\ Len(response.results) = 1
       /\ IsFailed(response.results[1])
       /\ response.results[1].error = err

(* ------------------------ output-path resolution ---------------------- *)

\* No directory: parseCertificateDir returned null, or resolution threw.
NoDir == <<>>

DecimalDigits == <<"0", "1", "2", "3", "4", "5", "6", "7", "8", "9">>

\* \d
IsDigit(ch) == \E k \in DOMAIN DecimalDigits : DecimalDigits[k] = ch

DigitValue(ch) == (CHOOSE k \in DOMAIN DecimalDigits : DecimalDigits[k] = ch) - 1

\* \d+ up to the end of the name
AllDigits(s) == s # <<>> /\ \A i \in DOMAIN s : IsDigit(s[i])

\* parseInt of a string of digits.
RECURSIVE ParseInt(_)
ParseInt(s) ==
    IF s = <<>>
    THEN 0
    ELSE 10 * ParseInt(SubSeq(s, 1, Len(s) - 1)) + DigitValue(s[Len(s)])

\* parseInt(name.match(/-(\d+)$/)?.[1] ?? '-1')
NumberOf(name) ==
    LET at == {k \in DOMAIN name :
                   name[k] = "-" /\ AllDigits(SubSeq(name, k + 1, Len(name)))}
    IN  IF at = {}
        THEN -1
        ELSE LET k == CHOOSE k \in at : TRUE
             IN  ParseInt(SubSeq(name, k + 1, Len(name)))

\* new RegExp(`^${escapedDomain}(-\\d+)?$`).test(name)
MatchesLineage(name, d) ==
    \/ name = d
    \/ /\ Len(name) > Len(d) + 1
       /\ SubSeq(name, 1, Len(d)) = d
       /\ name[Len(d) + 1] = "-"
       /\ AllDigits(SubSeq(name, Len(d) + 2, Len(name)))

\* findLatestCertDir: the directories the sort can put first, none when it
\* throws.
FindLatestCertDir(dirs, d) ==
    LET matching == {n \in dirs : MatchesLineage(n, d)}
    IN  {n \in matching : \A o \in matching : NumberOf(o) <= NumberOf(n)}

Resolved(dir) == [ok |-> TRUE, dir |-> dir]
Unresolved == [ok |-> FALSE, dir |-> NoDir]

\* A resolution that does not look at the path parsed from the output.
GetCertificatePathsIgnoringOutput(dirs, d, parsed) ==
    IF d \in dirs
    THEN {Resolved(d)}
    ELSE IF FindLatestCertDir(dirs, d) = {}
    THEN {Unresolved}
    ELSE {Resolved(n) : n \in FindLatestCertDir(dirs, d)}

\* A resolution that goes from the parsed path straight to the scan.
GetCertificatePathsByScan(dirs, d, parsed) ==
    IF parsed # NoDir /\ parsed \in dirs
    THEN {Resolved(parsed)}
    ELSE IF FindLatestCertDir(dirs, d) = {}
    THEN {Unresolved}
    ELSE {Resolved(n) : n \in FindLatestCertDir(dirs, d)}

\* getCertificatePaths: the directory it takes the four files from.
GetCertificatePaths(dirs, d, parsed) ==
    IF parsed # NoDir /\ parsed \in dirs
    THEN {Resolved(parsed)}
    ELSE IF d \in dirs
    THEN {Resolved(d)}
    ELSE IF FindLatestCertDir(dirs, d) = {}
    THEN {Unresolved}
    ELSE {Resolved(n) : n \in FindLatestCertDir(dirs, d)}

\* The primary domain of the resolution, its numbered lineages, and names
\* the pattern must not match.
Lineage == <<"a", ".", "b">>
Lineage5 == Lineage \o <<"-", "5">>
Lineage12 == Lineage \o <<"-", "1", "2">>
LiveDirs ==
    {Lineage, Lineage5, Lineage12, Lineage \o <<"-", "x">>,
     <<"a", "x", "b">>, <<"c", ".", "d", "-", "7", "7">>}

\* The directory a saved-at line of the output names: none (no such line), a
\* directory of live/, or a path that does not exist.
ParsedDirs == {NoDir, Lineage5, <<"z">>}

\* The captured output of the tool: the directory of its first "Certificate
\* is saved at: <dir>/fullchain.pem" line and the directory of its first
\* "Key is saved at: <dir>/privkey.pem" line.
Stdouts == {[cert |-> c, key |-> k] : c \in ParsedDirs, k \in ParsedDirs}

\* parseCertificateDir: the certificate line first, the key line as the
\* fallback, null without either.
ParseCertificateDir(out) == IF out.cert # NoDir THEN out.cert ELSE out.key

\* The tool has run for the primary domain Lineage and has left some of the
\* directories of LiveDirs under live/.
InitResolution ==
    /\ pc = "resolving"
    /\ mode = ""
    /\ envOk = TRUE
    /\ dryRun = FALSE
    /\ filter = NoFilter
    /\ payloadArn = NoArn
    /\ domain = Lineage
    /\ s3doc = NoDoc
    /\ remote = {}
    /\ config = <<>>
    /\ idx = 1
    /\ results = <<>>
    /\ err = NoError
    /\ response = NoResponse
    /\ localDir = TRUE
    /\ localFiles \in SUBSET LiveDirs
    /\ newArn = NoArn
    /\ log = <<>>
    /\ faults = 0
    /\ nrCall = NoCall

\* getCertificatePaths(primaryDomain, parseCertificateDir(stdout)): the
\* history holds the parsed path given and the directory selected.
ResolvePaths ==
    /\ pc = "resolving"
    /\ \E out \in Stdouts :
         LET parsed == ParseCertificateDir(out)
         IN  \E o \in GetCertificatePaths(localFiles, domain, parsed) :
               log' = <<Returning(Call("resolve", 0, parsed, o.ok), o.dir)>>
    /\ UNCHANGED <<inputs, pc, s3doc, config, idx, results, err, response,
                   localDir, localFiles, remote, newArn, faults, nrCall>>

NextResolution == ResolvePaths

SpecResolution == InitResolution /\ [][NextResolution]_vars

\* The resolution has run on an output that names no saved-at path.
ResolvedWithoutPath ==
    /\ pc = "resolving"
    /\ log # <<>>
    /\ log[1].arg = NoDir

HasResolved == pc = "resolving" /\ log # <<>>

\* The parsed path names a directory that exists.
ParsedPathExists == log[1].arg # NoDir /\ log[1].arg \in localFiles

\* C21: the resolution tries its strategies in strict priority order: the
\* directory of the saved-at path parsed from the output when it exists,
\* else the directory named exactly after the primary domain when it
\* exists, else the highest-numbered primaryDomain-N directory; a strategy
\* is used only when every one before it yields no existing directory, and
\* the resolution fails when none yields one.
C21_StrictPriorityOrder ==
    HasResolved =>
        /\ ParsedPathExists => log[1].ok /\ log[1].ret = log[1].arg
        /\ ~ParsedPathExists /\ Lineage \in localFiles =>
               log[1].ok /\ log[1].ret = Lineage
        /\ (/\ ~ParsedPathExists
            /\ Lineage \notin localFiles
            /\ Lineage12 \in localFiles)
           => log[1].ok /\ log[1].ret = Lineage12
        /\ (/\ ~ParsedPathExists
            /\ {Lineage, Lineage12} \cap localFiles = {}
            /\ Lineage5 \in localFiles)
           => log[1].ok /\ log[1].ret = Lineage5
        /\ (/\ ~ParsedPathExists
            /\ {Lineage, Lineage5, Lineage12} \cap localFiles = {})
           => ~log[1].ok /\ log[1].ret = NoDir

\* The output named primaryDomain-5, which exists next to primaryDomain and
\* primaryDomain-12: the parsed directory was selected.
C21_Witness ==
    /\ HasResolved
    /\ log[1].arg = Lineage5
    /\ {Lineage, Lineage5, Lineage12} \subseteq localFiles
    /\ log[1].ok
    /\ log[1].ret = Lineage5

(* --------------------- obtain and its output files -------------------- *)

\* The four files of a lineage directory.
CertFiles == {"cert.pem", "chain.pem", "fullchain.pem", "privkey.pem"}

\* path.join(liveDir, f)
FileIn(dir, f) == dir \o <<"/", f>>

\* A check that looks for the certificate and the key only.
HasCertificateAndKey(tree, dir) ==
    \A f \in {"cert.pem", "privkey.pem"} : FileIn(dir, f) \in tree

\* The loop of getCertificatePaths over Object.entries(paths): every one of
\* the four files exists.
HasAllFiles(tree, dir) == \A f \in CertFiles : FileIn(dir, f) \in tree

\* getCertificatePaths as a whole: the directory selected and whether the
\* path bundle is returned (ok) or an error is thrown.
VerifiedCertificatePaths(tree, d, parsed) ==
    { [ok |-> o.ok /\ HasAllFiles(tree, o.dir), dir |-> o.dir] :
        o \in GetCertificatePaths(tree, d, parsed) }

\* The directories a run of the tool for the primary domain Lineage can
\* leave under live/.
LineageDirs == {Lineage, Lineage5, Lineage12}

\* The tree under live/ in which each directory of LineageDirs is absent,
\* complete, or partial (it lacks the file `missing`).
TreeOf(st, missing) ==
    {d \in LineageDirs : st[d] # "absent"} \cup
    {FileIn(d, f) : d \in {e \in LineageDirs : st[e] = "complete"},
                    f \in CertFiles} \cup
    {FileIn(d, f) : d \in {e \in LineageDirs : st[e] = "partial"},
                    f \in CertFiles \ {missing}}

ObtainedTrees ==
    { TreeOf(st, missing) :
        st \in [LineageDirs -> {"absent", "complete", "partial"}],
        missing \in CertFiles }

\* A renew pass over a document of one enabled entry, whose primary domain
\* is Lineage, has initialized, read the document and pulled an empty
\* prefix: processCertificate is about to call obtainCertificate.
InitObtain ==
    /\ pc = "obtain"
    /\ mode = "renew"
    /\ envOk = TRUE
    /\ dryRun = FALSE
    /\ filter = NoFilter
    /\ payloadArn = NoArn
    /\ domain = NoDomain
    /\ \E kind \in {"fresh", "existing"} : config = <<Entry(1, kind)>>
    /\ s3doc = Doc(config)
    /\ remote = {}
    /\ idx = 1
    /\ results = <<>>
    /\ err = NoError
    /\ response = NoResponse
    /\ localDir = TRUE
    /\ localFiles = {}
    /\ newArn = NoArn
    /\ log = <<Call("initialize", 0, "", TRUE),
               Call("downloadConfig", 0, "", TRUE),
               Call("pull", 0, {}, TRUE)>>
    /\ faults = 0
    /\ nrCall = NoCall

\* certbotRunner.obtainCertificate(config) in full: the run of the tool,
\* which leaves a tree under live/, parseCertificateDir on its output and
\* getCertificatePaths; every error is rethrown as 'Certbot failed: ...'.
\* The history holds the directory selected.
ObtainCertificatePaths ==
    /\ pc = "obtain"
    /\ LET e == config[idx]
           run == Call("obtain", idx, ForceRenewal(e), FALSE)
       IN  \/ /\ Fault
              /\ log' = Append(log, Returning(run, NoDir))
              /\ localFiles' = localFiles
              /\ CatchCertificateError(e, ErrCertbot)
           \/ /\ NoFault
              /\ \E tree \in ObtainedTrees, out \in Stdouts :
                   \E o \in VerifiedCertificatePaths(
                                tree, Lineage, ParseCertificateDir(out)) :
                     /\ localFiles' = localFiles \cup tree
                     /\ log' = Append(log, Returning([run EXCEPT !.ok = o.ok],
                                                     o.dir))
                     /\ IF o.ok
                        THEN Continue("backup")
                        ELSE CatchCertificateError(e, ErrCertbot)
    /\ nrCall' = NoCall
    /\ UNCHANGED <<inputs, s3doc, config, response, localDir, remote, newArn>>

NextObtain ==
    \/ ObtainCertificatePaths
    \/ SaveCertificateBackup
    \/ ImportCertificate
    \/ GetCertificateInfo
    \/ NextCertificate
    \/ SyncDirectoryToS3
    \/ NotifySuccess
    \/ CatchError
    \/ Cleanup

SpecObtain == InitObtain /\ [][NextObtain]_vars

\* The four files are in the directory `dir` of the working tree.
FourFilesIn(dir) ==
    /\ dir \o <<"/", "cert.pem">> \in localFiles
    /\ dir \o <<"/", "chain.pem">> \in localFiles
    /\ dir \o <<"/", "fullchain.pem">> \in localFiles
    /\ dir \o <<"/", "privkey.pem">> \in localFiles

\* C22: obtain returns a path bundle only when all four files (cert, chain,
\* fullchain, private key) exist in the resolved directory; when no
\* candidate directory exists or one of the four files is missing, obtain
\* fails with an error, the entry gets a failure result, and neither backup
\* nor import is attempted for it.
C22_BundleNeedsFourFiles ==
    /\ pc \notin {"obtain", "done"} =>
           \A j \in CallsOf("obtain", 1) :
               /\ log[j].ok =>
                      /\ log[j].ret \in localFiles
                      /\ FourFilesIn(log[j].ret)
               /\ LineageDirs \cap localFiles = {} => ~log[j].ok
               /\ (log[j].ret # NoDir /\ ~FourFilesIn(log[j].ret)) =>
                      ~log[j].ok
    /\ \A j \in CallsOf("obtain", 1) :
           ~log[j].ok =>
               /\ CallsOf("backup", 1) = {}
               /\ CallsOf("import", 1) = {}
               /\ Passed(1)
               /\ Len(results) = 1
               /\ IsFailed(results[1])
               /\ results[1].error = ErrCertbot
    /\ CallsOf("backup", 1) \cup CallsOf("import", 1) # {} =>
           \E j \in CallsOf("obtain", 1) : log[j].ok

\* The tool left the unnumbered directory without its private key next to
\* a complete primaryDomain-12: obtain selected the unnumbered directory
\* and failed, and the entry has its failure result.
C22_Witness ==
    /\ pc = "loop"
    /\ Len(results) = 1
    /\ IsFailed(results[1])
    /\ \E j \in CallsOf("obtain", 1) :
           /\ ~log[j].ok
           /\ log[j].ret = Lineage
    /\ Lineage \o <<"/", "privkey.pem">> \notin localFiles
    /\ Lineage \o <<"/", "cert.pem">> \in localFiles
    /\ FourFilesIn(Lineage12)

(* ------------------- push and pull of a working tree ------------------ *)

\* The content of a file or object.
Bytes == {0, 1}

\* The s3Prefix of both syncs, and a prefix the syncs do not touch.
SyncPrefix == <<"p">>
OtherPrefix == <<"q">>

\* Paths of files relative to the local directory: a file, a file in a
\* directory, and a file whose name holds a backslash.
LocalPaths == { <<"a">>, <<"d", "/", "a">>, <<"d", "\\", "a">> }

\* Keys of objects of the bucket.
ObjectKeys ==
    { SyncPrefix \o <<"/", "a">>, SyncPrefix \o <<"/", "d", "/", "a">>,
      SyncPrefix \o <<"/", "b">>, OtherPrefix \o <<"/", "a">> }

\* A file tree or a set of objects: a function from paths or keys to bytes.
TreesOver(names) == UNION { [ns -> Bytes] : ns \in SUBSET names }
EmptyTree == CHOOSE t \in TreesOver({}) : TRUE

\* path.join(s3Prefix, relativePath).replace(/\\/g, '/')
KeyOf(prefix, rel) ==
    LET joined == prefix \o <<"/">> \o rel
    IN  [i \in 1..Len(joined) |->
            IF joined[i] = "\\" THEN "/" ELSE joined[i]]

\* obj.Key.substring(s3Prefix.length).replace(/^\//, '')
RelativePath(prefix, key) ==
    LET rest == SubSeq(key, Len(prefix) + 1, Len(key))
    IN  IF rest # <<>> /\ rest[1] = "/"
        THEN SubSeq(rest, 2, Len(rest))
        ELSE rest

\* The Contents of ListObjectsV2 with Prefix: the keys that start with it.
ListObjects(objects, prefix) ==
    {k \in DOMAIN objects :
        Len(k) >= Len(prefix) /\ SubSeq(k, 1, Len(prefix)) = prefix}

\* uploadDirectory: every file of the tree is put at its key; files whose
\* keys coincide overwrite each other in the order getAllFiles lists them.
\* No object is deleted.
UploadDirectory(objects, tree, prefix) ==
    LET keys == {KeyOf(prefix, p) : p \in DOMAIN tree}
    IN  { [k \in DOMAIN objects \cup keys |->
              IF k \in keys THEN tree[pick[k]] ELSE objects[k]] :
          pick \in { f \in [keys -> DOMAIN tree] :
                       \A k \in keys : KeyOf(prefix, f[k]) = k } }

\* The loop of syncS3ToDirectory: every listed object whose relative path
\* is not empty is written at that path.  No file is deleted.
DownloadObjects(tree, objects, prefix) ==
    LET listed == {k \in ListObjects(objects, prefix) :
                       RelativePath(prefix, k) # <<>>}
        paths == {RelativePath(prefix, k) : k \in listed}
    IN  { [p \in DOMAIN tree \cup paths |->
              IF p \in paths THEN objects[pick[p]] ELSE tree[p]] :
          pick \in { f \in [paths -> listed] :
                       \A p \in paths : RelativePath(prefix, f[p]) = p } }

\* A syncDirectoryToS3 that does not test for the directory: readdirSync
\* throws on a directory that does not exist.
NeverSkipsSync(exists) == FALSE

\* if (!fs.existsSync(localDir)) of syncDirectoryToS3.
SkipsSync(exists) == ~exists

\* A local directory that may not exist, with any files when it does, and
\* a bucket with any objects.
InitSync ==
    /\ pc = "sync"
    /\ mode = ""
    /\ envOk = TRUE
    /\ dryRun = FALSE
    /\ filter = NoFilter
    /\ payloadArn = NoArn
    /\ domain = NoDomain
    /\ s3doc = NoDoc
    /\ config = <<>>
    /\ idx = 1
    /\ results = <<>>
    /\ err = NoError
    /\ response = NoResponse
    /\ localDir \in BOOLEAN
    /\ localFiles \in (IF localDir THEN TreesOver(LocalPaths) ELSE {EmptyTree})
    /\ remote \in TreesOver(ObjectKeys)
    /\ newArn = NoArn
    /\ log = <<>>
    /\ faults = 0
    /\ nrCall = NoCall

\* The local directory and the objects a sync call found when it started.
Found == [dir |-> localDir, files |-> localFiles, objects |-> remote]

\* syncDirectoryToS3(localDir, s3Prefix) on a tree with contents.
PushTree ==
    /\ pc = "sync"
    /\ IF SkipsSync(localDir)
       THEN /\ remote' = remote
            /\ log' = Append(log, Call("push", 0, Found, TRUE))
       ELSE IF ~localDir
       THEN /\ remote' = remote
            /\ log' = Append(log, Call("push", 0, Found, FALSE))
       ELSE /\ remote' \in UploadDirectory(remote, localFiles, SyncPrefix)
            /\ log' = Append(log, Call("push", 0, Found, TRUE))
    /\ pc' = "pushed"
    /\ UNCHANGED <<inputs, s3doc, config, idx, results, err, response,
                   localDir, localFiles, newArn, faults, nrCall>>

\* The next pull is made into a directory that does not exist yet.
FreshDirectory ==
    /\ pc = "pushed"
    /\ pc' = "fresh"
    /\ localDir' = FALSE
    /\ localFiles' = EmptyTree
    /\ UNCHANGED <<inputs, s3doc, config, idx, results, err, response,
                   remote, newArn, log, faults, nrCall>>

\* syncS3ToDirectory(s3Prefix, localDir) on a tree with contents.
PullTree ==
    /\ pc \in {"sync", "fresh"}
    /\ pc' = "pulled"
    /\ localDir' = TRUE
    /\ localFiles' \in DownloadObjects(localFiles, remote, SyncPrefix)
    /\ log' = Append(log, Call("pull", 0, Found, TRUE))
    /\ UNCHANGED <<inputs, s3doc, config, idx, results, err, response,
                   remote, newArn, faults, nrCall>>

NextSync == PushTree \/ FreshDirectory \/ PullTree

SpecSync == InitSync /\ [][NextSync]_vars

\* A push of an existing directory has been followed by a pull into a
\* fresh directory.
PushedThenPulled ==
    /\ pc = "pulled"
    /\ Len(log) = 2
    /\ log[1].op = "push"
    /\ log[1].ok
    /\ log[1].arg.dir
    /\ log[2].op = "pull"

\* C23: push(localDir, prefix) followed by pull(prefix, freshDir) makes the
\* file tree of freshDir identical to the file tree of localDir (same
\* relative paths, same bytes, no extra and no missing file), for every
\* local tree and every prior content of the remote prefix.
C23_RoundTrip == PushedThenPulled => localFiles = log[1].arg.files


\* The objects a sync call found hold none under the sync prefix.
NothingUnderPrefix(objects) ==
    \A k \in DOMAIN objects : k[1] # "p"

\* C24: push is a no-op that writes no object and raises no error when the
\* local directory does not exist, and pull raises no error and writes no
\* file (it only ensures that the local directory exists) when the remote
\* prefix holds zero objects.
C24_EmptySyncsAreNoOps ==
    /\ \A j \in DOMAIN log :
           (log[j].op = "push" /\ ~log[j].arg.dir) =>
               /\ log[j].ok
               /\ remote = log[j].arg.objects
    /\ (/\ pc = "pulled"
        /\ NothingUnderPrefix(log[Len(log)].arg.objects))
       => /\ log[Len(log)].op = "pull"
          /\ log[Len(log)].ok
          /\ localDir
          /\ localFiles = log[Len(log)].arg.files

\* A push without a local directory has left the bucket as it was, and the
\* pull that followed found objects under another prefix only: it created
\* the directory and wrote nothing.
C24_Witness ==
    /\ pc = "pulled"
    /\ Len(log) = 2
    /\ log[1].op = "push"
    /\ ~log[1].arg.dir
    /\ remote # EmptyTree
    /\ NothingUnderPrefix(remote)
    /\ ~log[2].arg.dir
    /\ localDir
    /\ localFiles = EmptyTree

(* --------------------------- the renew filter ------------------------- *)

\* The enabled entry at position i is not named by the filter of the event.
LeftOutByFilter(i) ==
    /\ i \in DOMAIN config
    /\ config[i].enabled
    /\ filter.present
    /\ config[i].id \notin filter.ids

\* C25: in a renew pass with an id filter present, every enabled entry
\* whose id is not in the filter is skipped silently: no result is recorded
\* for it, it is not counted in totalProcessed or totalSkipped, and
\* needsRenewal, obtain, backup and import are never called for it.
C25_FilteredOutIsSilent ==
    mode = "renew" =>
        /\ \A i \in DOMAIN config :
               LeftOutByFilter(i) =>
                   /\ ResultsOf(i) = {}
                   /\ \A j \in DOMAIN log : log[j].idx # i
                   /\ \A k \in DOMAIN response.results :
                          response.results[k].certificateId # config[i].id
        /\ response.statusCode # 0 =>
               /\ response.totalProcessed =
                      Cardinality({i \in DOMAIN config : ~LeftOutByFilter(i)
                                                         /\ Passed(i)})
               /\ response.totalSkipped =
                      Cardinality({k \in DOMAIN response.results :
                                       response.results[k].skipped})
        /\ pc \in {"push", "notify"} =>
               \A i \in DOMAIN config : Passed(i)

\* A pass that is not a dry run, with a filter naming the second entry, has
\* returned: the first entry, enabled and never imported, has no result and
\* the second one was obtained.
C25_Witness ==
    /\ mode = "renew"
    /\ pc = "done"
    /\ ~dryRun
    /\ filter.present
    /\ filter.ids = {IdOf(2)}
    /\ Len(config) >= 2
    /\ config[1].enabled
    /\ config[1].acmCertificateArn = NoArn
    /\ ResultsOf(1) = {}
    /\ CallsOf("obtain", 2) # {}
    /\ response.statusCode = 200
    /\ response.totalProcessed = Len(config) - 1


\* C26: in a renew pass, a certificateIds filter that is unspecified or the
\* empty list selects all enabled certificates: every enabled entry of the
\* document is handed to the per-certificate renewal procedure, which
\* records its result.
C26_EmptyFilterSelectsAll ==
    (/\ mode = "renew"
     /\ response.statusCode = 200
     /\ (~filter.present \/ filter.ids = {}))
    => \A i \in DOMAIN config :
           config[i].enabled =>
               \E k \in DOMAIN response.results :
                   response.results[k].certificateId = config[i].id

(* ------------------------------ the router ---------------------------- *)

\* The mode whose procedure alone makes the call c.
ModeOfCall(c) ==
    CASE c.op = "register" -> {"register"}
      [] c.op = "uploadConfig" -> {"certonly"}
      [] c.op = "needsRenewal" -> {"renew"}
      [] c.op \in {"obtain", "backup", "import", "tag", "describe"} ->
             IF c.idx = 0 THEN {"certonly"} ELSE {"renew"}
      [] c.op = "downloadConfig" -> {"certonly", "renew"}
      [] OTHER -> Modes

\* C27: the handler runs exactly one of the three mode procedures per
\* invocation, the one the mode field names; when the mode is missing or
\* is not one of register, certonly, renew, the handler raises an error and
\* performs no side effect of any mode procedure.
C27_OneModePerInvocation ==
    /\ \A j \in DOMAIN log : mode \in ModeOfCall(log[j])
    /\ mode \notin Modes =>
           /\ pc \in {"start", "raised"}
           /\ log = <<>>
           /\ ~localDir
           /\ localFiles = {}
           /\ remote = {}
           /\ s3doc = NoDoc
           /\ response = NoResponse
    /\ (mode \in Modes /\ pc = "done") =>
           /\ log # <<>>
           /\ mode = "register" => response.results = <<>>
           /\ mode = "certonly" =>
                  /\ Len(response.results) = 1
                  /\ response.results[1].certificateId = CertId(domain)
           /\ mode = "renew" => response.results = results

\* An invocation whose mode is not one of the three has raised.
C27_Witness ==
    /\ mode = "bogus"
    /\ pc = "raised"
    /\ log = <<>>

(* ------------------------- order of the renew pass -------------------- *)

\* The place of a call in the per-certificate procedure.
StepOf(op) ==
    CASE op = "needsRenewal" -> 1
      [] op = "obtain" -> 2
      [] op = "backup" -> 3
      [] op = "import" -> 4
      [] op = "tag" -> 5
      [] OTHER -> 6

\* The position in the document of the entry a result is about.
PositionOf(r) == CHOOSE i \in DOMAIN config : config[i].id = r.certificateId

Invocations == {1, 2}

\* The handle the import of invocation p returned.
HandleOf(p) == MaxEntries + p

\* The other invocation.
Other(p) == CHOOSE q \in Invocations : q # p

\* The CertificateConfig invocation p appends.
NewCertConfigOf(p) ==
    [id |-> CertId(domain[p]), enabled |-> TRUE,
     acmCertificateArn |-> newArn[p],
     renewDaysBeforeExpiry |-> DefaultRenewDays]

\* An upload that appends the new entry to the document stored at the time
\* of the write.
MergedDocument(own, stored) ==
    Doc(stored.certificates \o <<own[Len(own)]>>)

\* JSON.stringify(config, null, 2): the body of the upload is the document
\* the invocation built from its own read, whatever is stored by now.
UploadedDocument(own, stored) == Doc(own)

\* Both invocations have imported their certificates and pushed the account
\* state: each is about to read the configuration document.  Each variable
\* of an invocation holds one value per invocation.
InitOverlap ==
    /\ pc = [p \in Invocations |-> "readConfig"]
    /\ mode = "certonly"
    /\ envOk = TRUE
    /\ dryRun = FALSE
    /\ filter = NoFilter
    /\ payloadArn = NoArn
    /\ domain \in [Invocations -> PrimaryDomains]
    /\ s3doc \in {NoDoc, BadDoc} \cup {d \in Docs : Len(d.certificates) <= 1}
    /\ remote = {AccountFile}
    /\ config = [p \in Invocations |-> <<>>]
    /\ idx = 1
    /\ results = <<>>
    /\ err = NoError
    /\ response = NoResponse
    /\ localDir = TRUE
    /\ localFiles = {AccountFile, LineageFile}
    /\ newArn = [p \in Invocations |-> HandleOf(p)]
    /\ log = <<>>
    /\ faults = 0
    /\ nrCall = NoCall

\* handleCertonlyMode of invocation p: the document is downloaded and
\* parsed, any failure of either starts an empty document; the new entry
\* is appended.
ReadConfigOf(p) ==
    /\ pc[p] = "readConfig"
    /\ \/ /\ s3doc.kind = "json"
          /\ NoFault
          /\ config' = [config EXCEPT ![p] =
                            Append(s3doc.certificates, NewCertConfigOf(p))]
          /\ log' = Append(log, Call("downloadConfig", 0, p, TRUE))
       \/ /\ s3doc.kind # "json"
          /\ NoFault
          /\ config' = [config EXCEPT ![p] = <<NewCertConfigOf(p)>>]
          /\ log' = Append(log, Call("downloadConfig", 0, p, FALSE))
       \/ /\ Fault
          /\ config' = [config EXCEPT ![p] = <<NewCertConfigOf(p)>>]
          /\ log' = Append(log, Call("downloadConfig", 0, p, FALSE))
    /\ pc' = [pc EXCEPT ![p] = "writeConfig"]
    /\ UNCHANGED <<inputs, s3doc, idx, results, err, response, localDir,
                   localFiles, remote, newArn, nrCall>>

\* handleCertonlyMode of invocation p: uploadFile of the whole document;
\* the invocation then returns its success, or its error when the upload
\* failed.
WriteConfigOf(p) ==
    /\ pc[p] = "writeConfig"
    /\ \/ /\ NoFault
          /\ s3doc' = UploadedDocument(config[p], s3doc)
          /\ log' = Append(log, Call("uploadConfig", 0, p, TRUE))
          /\ pc' = [pc EXCEPT ![p] = "succeeded"]
       \/ /\ Fault
          /\ s3doc' = s3doc
          /\ log' = Append(log, Call("uploadConfig", 0, p, FALSE))
          /\ pc' = [pc EXCEPT ![p] = "failed"]
    /\ UNCHANGED <<inputs, config, idx, results, err, response, localDir,
                   localFiles, remote, newArn, nrCall>>

NextOverlap == \E p \in Invocations : ReadConfigOf(p) \/ WriteConfigOf(p)

SpecOverlap == InitOverlap /\ [][NextOverlap]_vars

\* Both invocations have returned their success, and each had read the
\* document before the other one wrote it.
BothReadThenBothWrote ==
    /\ \A p \in Invocations : pc[p] = "succeeded"
    /\ Len(log) = 4
    /\ log[1].op = "downloadConfig"
    /\ log[2].op = "downloadConfig"

\* The stored document holds the entry invocation p appended.
HoldsEntryOf(p) ==
    \E k \in DOMAIN s3doc.certificates :
        s3doc.certificates[k].acmCertificateArn = HandleOf(p)

\* C29: the configuration document is read, modified and written back as a
\* whole with no concurrency control: a write stores the document its
\* invocation built from its own read, so whenever two overlapping certonly
\* invocations both read the document before either writes it and both
\* succeed, the final document holds the appended entry of the last writer
\* only (a lost update).
C29_LostUpdate ==
    /\ \A j \in DOMAIN log :
           (log[j].op = "uploadConfig" /\ log[j].ok /\ j = Len(log)) =>
               s3doc = Doc(config[log[j].arg])
    /\ BothReadThenBothWrote =>
           /\ HoldsEntryOf(log[4].arg)
           /\ ~HoldsEntryOf(log[3].arg)
           /\ log[3].arg # log[4].arg
           /\ s3doc = Doc(config[log[4].arg])

\* Two invocations for different domains have both succeeded on a document
\* of one entry, and the final document has two entries: the one that was
\* there and the one of the second writer.
C29_Witness ==
    /\ BothReadThenBothWrote
    /\ domain[1] # domain[2]
    /\ log[1].ok
    /\ log[2].ok
    /\ Len(s3doc.certificates) = 2
    /\ HoldsEntryOf(1)
    /\ ~HoldsEntryOf(2)

(* ----------------------- the lookup of a handle ----------------------- *)

\* C30: describe(handle) returns null when the store reports the handle as
\* not found or returns no certificate record, and re-raises every other
\* lookup failure unchanged; a re-raised lookup failure inside the
\* per-certificate renewal procedure becomes the failure result of that
\* entry and does not start an issuance.
C30_NotFoundIsAbsence ==
    mode = "renew" =>
        /\ nrCall.from \in {"ResourceNotFoundException", "no-certificate"} =>
               /\ nrCall.made
               /\ nrCall.info = NullInfo
               /\ nrCall.result
               /\ log[Len(log)].op = "needsRenewal"
               /\ log[Len(log)].ok
               /\ FailedCallsOf(nrCall.idx) = {}
        /\ nrCall.from = "certificate" => nrCall.made /\ nrCall.info.found
        /\ nrCall.from = "error" =>
               /\ ~nrCall.made
               /\ log[Len(log)] =
                      Call("needsRenewal", nrCall.idx,
                           config[nrCall.idx].acmCertificateArn, FALSE)
               /\ pc = "loop"
               /\ idx = nrCall.idx + 1
               /\ results[Len(results)] =
                      FailureResult(config[nrCall.idx].id, ErrAcm)
               /\ CallsOf("obtain", nrCall.idx) = {}
        /\ \A j \in DOMAIN log :
               (log[j].op \in {"needsRenewal", "describe"} /\ ~log[j].ok) =>
                   /\ \A k \in (j + 1)..Len(log) : log[k].idx # log[j].idx
                   /\ \E k \in DOMAIN results :
                          results[k] =
                              FailureResult(config[log[j].idx].id, ErrAcm)

\* The lookup of the handle of an entry failed with an error other than
\* not-found: the entry has its failure result and the tool was not run.
C30_Witness ==
    /\ mode = "renew"
    /\ ~dryRun
    /\ nrCall.from = "error"
    /\ pc = "loop"
    /\ results # <<>>
    /\ IsFailed(results[Len(results)])
    /\ CallsOf("obtain", nrCall.idx) = {}

(* ----------------------- order of the certonly steps ------------------ *)

\* The place of each call in the order pull, obtain, backup, import,
\* describe, read of the document, write of the document, push, notify,
\* cleanup (the tagging belongs to the import, the error notification takes
\* the place of the notification).
CertonlyRank(op) ==
    CASE op = "initialize" -> 0
      [] op = "pull" -> 1
      [] op = "obtain" -> 2
      [] op = "backup" -> 3
      [] op \in {"import", "tag"} -> 4
      [] op = "describe" -> 5
      [] op = "downloadConfig" -> 6
      [] op = "uploadConfig" -> 7
      [] op = "push" -> 8
      [] op \in {"notify", "notifyError"} -> 9
      [] OTHER -> 10

\* C31: in certonly mode the steps run in the order pull, obtain, backup,
\* import, describe, read-or-initialize the configuration document, write
\* the configuration document, push of the account state, notify, cleanup;
\* the push of the account state happens after the configuration document
\* has been written back.
C31_PushFollowsConfigWrite ==
    mode = "certonly" =>
        /\ \A j \in 1..(Len(log) - 1) :
               CertonlyRank(log[j].op) <= CertonlyRank(log[j + 1].op)
        /\ \A j \in DOMAIN log :
               log[j].op = "push" =>
                   \E k \in 1..(j - 1) :
                       log[k].op = "uploadConfig" /\ log[k].ok

(* ------------------- the command line of the tool --------------------- *)

\* A string here is a sequence of atoms: a word without blanks or shell
\* metacharacters, the blank, or the command separator.
Blank == " "
Separator == ";"

\* A caller-supplied value: a plain one, one with a blank, one with a
\* command separator.
CallerValues ==
    {<<"a">>, <<"a", Blank, "b">>, <<"a", Separator, "b">>}

\* event.input.domains / config.domains: one or two names.
DomainLists ==
    {<<d>> : d \in CallerValues} \cup
    {<<d, e>> : d \in CallerValues, e \in CallerValues}

\* The operations of CertbotRunner that run the tool.
ToolOperations == {"register", "certonly", "renew"}

\* configDir, workDir and logsDir of the runner.
ConfigDir == <<"/tmp/certbot/config">>
WorkDir == <<"/tmp/certbot/work">>
LogsDir == <<"/tmp/certbot/logs">>

\* The payload of register, or the parameters the two obtain operations
\* hand to buildCertbotCommand.
ToolPayloads(op) ==
    IF op = "register"
    THEN { [email |-> e, server |-> s, eabKid |-> k, eabHmacKey |-> h,
            domains |-> <<>>, forceRenewal |-> FALSE] :
             e \in CallerValues, s \in CallerValues, k \in CallerValues,
             h \in CallerValues }
    ELSE { [email |-> e, server |-> s, eabKid |-> <<>>, eabHmacKey |-> <<>>,
            domains |-> ds, forceRenewal |-> op = "renew"] :
             e \in CallerValues, s \in CallerValues, ds \in DomainLists }

\* params.domains.flatMap(d => ['-d', d])
RECURSIVE DomainTokens(_)
DomainTokens(ds) ==
    IF ds = <<>>
    THEN <<>>
    ELSE << <<"-d">>, Head(ds) >> \o DomainTokens(Tail(ds))

\* The args array of registerAccount (part_006).
RegisterArgs(p) ==
    << <<"register">>, <<"--non-interactive">>, <<"--agree-tos">>,
       <<"-m">>, p.email,
       <<"--server">>, p.server,
       <<"--eab-kid">>, p.eabKid,
       <<"--eab-hmac-key">>, p.eabHmacKey,
       <<"--config-dir">>, ConfigDir,
       <<"--work-dir">>, WorkDir,
       <<"--logs-dir">>, LogsDir >>

\* The args array of buildCertbotCommand (part_006) with the default key
\* type and the lineage name both obtain operations pass.
BuildCertbotCommand(p) ==
    << <<"certonly">>, <<"--non-interactive">>, <<"--agree-tos">>,
       <<"--email">>, p.email,
       <<"--dns-route53">>,
       <<"--server">>, p.server,
       <<"--config-dir">>, ConfigDir,
       <<"--work-dir">>, WorkDir,
       <<"--logs-dir">>, LogsDir >>
    \o DomainTokens(p.domains)
    \o << <<"--preferred-challenges">>, <<"dns-01">>,
          <<"--key-type">>, <<"rsa">>,
          <<"--rsa-key-size">>, <<"2048">> >>
    \o (IF p.forceRenewal THEN << <<"--force-renewal">> >> ELSE <<>>)
    \o << <<"--cert-name">>, p.domains[1] >>

\* Array.prototype.join(' ') on strings.
RECURSIVE Join(_)
Join(pieces) ==
    IF pieces = <<>>
    THEN <<>>
    ELSE IF Len(pieces) = 1
    THEN pieces[1]
    ELSE pieces[1] \o <<Blank>> \o Join(Tail(pieces))

\* `${option} ${value}`
Template(option, value) == <<option, Blank>> \o value

\* The command string of registerAccount (runner.ts).
RegisterCommand(p) ==
    Join(<< <<"certbot", Blank, "register">>,
            <<"--non-interactive">>, <<"--agree-tos">>,
            Template("-m", p.email),
            Template("--server", p.server),
            Template("--eab-kid", p.eabKid),
            Template("--eab-hmac-key", p.eabHmacKey),
            Template("--config-dir", ConfigDir),
            Template("--work-dir", WorkDir),
            Template("--logs-dir", LogsDir) >>)

\* The command string of buildCertbotCommand (runner.ts).
CertonlyCommand(p) ==
    Join(<< <<"certbot", Blank, "certonly">>,
            <<"--non-interactive">>, <<"--agree-tos">>,
            Template("--email", p.email),
            <<"--dns-route53">>,
            Template("--server", p.server),
            Template("--config-dir", ConfigDir),
            Template("--work-dir", WorkDir),
            Template("--logs-dir", LogsDir),
            Join([i \in DOMAIN p.domains |-> Template("-d", p.domains[i])]),
            <<"--preferred-challenges", Blank, "dns-01">>,
            Template("--key-type", <<"rsa">>),
            Template("--rsa-key-size", <<"2048">>) >>
         \o (IF p.forceRenewal THEN << <<"--force-renewal">> >> ELSE <<>>))

\* The pieces of s between the occurrences of sep.
SplitOn(s, sep) ==
    LET cuts == {0, Len(s) + 1} \cup {i \in DOMAIN s : s[i] = sep}
        Cut(k) == CHOOSE c \in cuts : Cardinality({d \in cuts : d < c}) = k
    IN  [k \in 1..(Cardinality(cuts) - 1) |->
            SubSeq(s, Cut(k - 1) + 1, Cut(k) - 1)]

NotEmpty(w) == w # <<>>

\* /bin/sh -c command: the processes the shell starts, each with its
\* argument vector.  The separator ends a command, blanks separate words.
Sh(command) ==
    LET commands == SplitOn(command, Separator)
        vectors ==
            [i \in DOMAIN commands |->
                SelectSeq(SplitOn(commands[i], Blank), NotEmpty)]
    IN  SelectSeq(vectors, NotEmpty)

\* The run of the tool as the operating system sees it.
Exec(primitive, shell, processes) ==
    [primitive |-> primitive, shell |-> shell, processes |-> processes]

InitCommand ==
    /\ pc = "build"
    /\ mode \in ToolOperations
    /\ envOk = TRUE
    /\ dryRun = FALSE
    /\ filter = NoFilter
    /\ payloadArn = NoArn
    /\ domain = NoDomain
    /\ s3doc = NoDoc
    /\ config \in ToolPayloads(mode)
    /\ idx = 1
    /\ results = <<>>
    /\ err = NoError
    /\ response = NoResponse
    /\ localDir = TRUE
    /\ localFiles = {}
    /\ remote = {}
    /\ newArn = NoArn
    /\ log = <<>>
    /\ faults = 0
    /\ nrCall = NoCall

\* execFileSync('certbot', args, ...): the tool is started with the array
\* as its argument vector (part_006).
ExecFileSync ==
    /\ pc = "build"
    /\ pc' = "run"
    /\ LET args == IF mode = "register"
                   THEN RegisterArgs(config)
                   ELSE BuildCertbotCommand(config)
       IN  log' = <<Call("exec", 0,
                         Exec("execFileSync", FALSE,
                              << << <<"certbot">> >> \o args >>),
                         TRUE)>>
    /\ UNCHANGED <<inputs, s3doc, config, idx, results, err, response,
                   localDir, localFiles, remote, newArn, faults, nrCall>>

\* execSync(command, ...): the string is handed to the shell (runner.ts).
ExecSync ==
    /\ pc = "build"
    /\ pc' = "run"
    /\ LET command == IF mode = "register"
                      THEN RegisterCommand(config)
                      ELSE CertonlyCommand(config)
       IN  log' = <<Call("exec", 0, Exec("execSync", TRUE, Sh(command)),
                         TRUE)>>
    /\ UNCHANGED <<inputs, s3doc, config, idx, results, err, response,
                   localDir, localFiles, remote, newArn, faults, nrCall>>

NextCommand == ExecFileSync \/ ExecSync

SpecCommand == InitCommand /\ [][NextCommand]_vars

\* The values of the caller, each with the option it is passed under.
SuppliedValues(op, p) ==
    IF op = "register"
    THEN { << <<"-m">>, p.email >>, << <<"--server">>, p.server >>,
           << <<"--eab-kid">>, p.eabKid >>,
           << <<"--eab-hmac-key">>, p.eabHmacKey >> }
    ELSE { << <<"--email">>, p.email >>, << <<"--server">>, p.server >> }
         \cup { << <<"-d">>, p.domains[i] >> : i \in DOMAIN p.domains }

\* The number of tokens the tool is given when every value is one token.
VectorLength(op, p, primitive) ==
    IF op = "register"
    THEN 18
    ELSE 21 + 2 * Len(p.domains) + (IF p.forceRenewal THEN 1 ELSE 0)
            + (IF primitive = "execFileSync" THEN 2 ELSE 0)

\* C32: every argument passed to the issuance tool is one token of an
\* argument vector handed directly to the process-exec primitive: no shell
\* interprets a command string, one process is started, and each value of
\* the caller (email, server, EAB key id and key, each domain) is exactly
\* one token of its vector whatever characters it contains, in
\* registerAccount and in both obtain operations.
C32_OneTokenPerValue ==
    pc = "run" =>
        LET run == log[1].arg
        IN  /\ ~run.shell
            /\ Len(run.processes) = 1
            /\ LET argv == run.processes[1]
               IN  /\ argv[1] = <<"certbot">>
                   /\ Len(argv) = VectorLength(mode, config, run.primitive)
                   /\ \A v \in SuppliedValues(mode, config) :
                          \E k \in 1..(Len(argv) - 1) :
                              argv[k] = v[1] /\ argv[k + 1] = v[2]

(* ------------------- the backup before the import --------------------- *)

\* The call made just before the call at position j of the history.
Before(j) == log[j - 1]

\* C33: in the per-certificate renewal procedure the artifacts are backed up
\* after obtain and before import, and import comes before describe; when
\* the backup fails, import is not attempted for that entry, the certificate
\* store is left unchanged and the result of the entry is a failure.
C33_BackupPrecedesImport ==
    /\ \A j \in DOMAIN log :
           /\ log[j].op = "backup" =>
                  /\ j > 1
                  /\ Before(j).op = "obtain"
                  /\ Before(j).ok
                  /\ Before(j).idx = log[j].idx
           /\ log[j].op = "import" =>
                  /\ j > 1
                  /\ Before(j).op = "backup"
                  /\ Before(j).ok
                  /\ Before(j).idx = log[j].idx
           /\ log[j].op = "describe" =>
                  /\ j > 1
                  /\ Before(j).op \in {"import", "tag"}
                  /\ Before(j).ok
                  /\ Before(j).idx = log[j].idx
    /\ \A j \in DOMAIN log :
           (log[j].op = "backup" /\ ~log[j].ok) =>
               /\ CallsOf("import", log[j].idx) = {}
               /\ CallsOf("tag", log[j].idx) = {}
               /\ CallsOf("describe", log[j].idx) = {}
               /\ newArn = NoArn
               /\ results =
                      <<FailureResult(config[log[j].idx].id, ErrS3)>>

\* The backup of the one entry failed after a successful obtain and the pass
\* has returned.
C33_Witness ==
    /\ pc = "done"
    /\ \E j \in CallsOf("backup", 1) :
           /\ ~log[j].ok
           /\ log[j - 1].op = "obtain"
           /\ log[j - 1].ok
    /\ CallsOf("import", 1) = {}
    /\ response.totalFailed = 1

(* --------------- the expiry check and the dry-run check --------------- *)

\* C34: in the per-certificate renewal procedure the expiry check precedes
\* the dry-run check: in a dry-run pass an entry with a prior handle that is
\* not yet due yields the 'not yet due' skipped result (success = false),
\* and only entries without a handle or due for renewal yield the result
\* success = true, skipped = true with the 'dry run' reason.
C34_ExpiryCheckPrecedesDryRun ==
    (mode = "renew" /\ dryRun) =>
        /\ \A i \in DOMAIN config :
               LET e == config[i]
                   checks == CallsOf("needsRenewal", i)
               IN  /\ (Passed(i) /\ Included(i) /\ e.acmCertificateArn # NoArn)
                          => Cardinality(checks) = 1
                   /\ \A k \in ResultsOf(i) :
                          /\ results[k].skipReason = SkipNotDue =>
                                 /\ results[k] = NotDueResult(e)
                                 /\ ~results[k].success
                                 /\ e.acmCertificateArn # NoArn
                                 /\ \E j \in checks : log[j].ok
                          /\ results[k].skipReason = SkipDryRun =>
                                 /\ results[k] = DryRunResult(e)
                                 /\ results[k].success
                                 /\ results[k].skipped
                                 /\ \/ e.acmCertificateArn = NoArn
                                    \/ \E j \in checks : log[j].ok
                          /\ (e.enabled /\ e.acmCertificateArn = NoArn) =>
                                 results[k] = DryRunResult(e)
        /\ (nrCall.made /\ pc = "loop") =>
               results[Len(results)] =
                   IF nrCall.result
                   THEN DryRunResult(config[nrCall.idx])
                   ELSE NotDueResult(config[nrCall.idx])

\* A dry-run pass over two entries with a handle has returned: the first
\* was not yet due, the second was due.
C34_Witness ==
    /\ mode = "renew"
    /\ dryRun
    /\ pc = "done"
    /\ Len(config) >= 2
    /\ config[1].acmCertificateArn # NoArn
    /\ config[2].acmCertificateArn # NoArn
    /\ Len(results) >= 2
    /\ results[1] = NotDueResult(config[1])
    /\ results[2] = DryRunResult(config[2])
    /\ response.statusCode = 200

(* ------------------ termination of the renew pass --------------------- *)

\* The steps of a renew invocation.
NextRenew ==
    \/ Handler
    \/ CheckEnvironment
    \/ Initialize
    \/ DownloadConfig
    \/ SyncS3ToDirectory
    \/ NextCertificate
    \/ CheckRenewal
    \/ ObtainCertificate
    \/ SaveCertificateBackup
    \/ ImportCertificate
    \/ GetCertificateInfo
    \/ SyncDirectoryToS3
    \/ NotifySuccess
    \/ CatchError
    \/ Cleanup

\* The state a renew invocation starts in.
InitRenewPass == Fresh /\ InitRenew

\* One renew invocation in which every awaited call returns or fails: the
\* handler takes its next step as long as it has one.
SpecRenew == InitRenewPass /\ [][NextRenew]_vars /\ WF_vars(NextRenew)

\* The state of the entry at position i: pending until its result is
\* recorded, then the terminal state its result stands for.
EntryState(i, rs) ==
    LET recorded == {k \in DOMAIN rs : rs[k].certificateId = config[i].id}
    IN  IF recorded = {}
        THEN "pending"
        ELSE LET r == rs[CHOOSE k \in recorded : TRUE]
             IN  IF r.skipped THEN "done-skipped"
                 ELSE IF r.success THEN "done-success"
                 ELSE "done-failure"

\* The invocation has returned its response.
Returned == pc = "done" /\ response.statusCode \in {200, 500}

\* The pull has returned, so the loop over the entries has been entered.
LoopEntered == \E j \in DOMAIN log : log[j].op = "pull" /\ log[j].ok

\* Every entry handed to processCertificate or skipped as disabled has one
\* result once the loop is past it, and none before.
OneResultPerEntry ==
    \A i \in DOMAIN config :
        Cardinality(ResultsOf(i)) =
            IF Passed(i) /\ (Included(i) \/ ~config[i].enabled) THEN 1 ELSE 0

\* A recorded result is never changed or removed, so an entry never leaves
\* its terminal state.
TerminalIsFinal ==
    /\ Len(results') >= Len(results)
    /\ SubSeq(results', 1, Len(results)) = results
    /\ config # <<>> => config' = config
    /\ \A i \in DOMAIN config :
           EntryState(i, results) # "pending" =>
               EntryState(i, results') = EntryState(i, results)

\* C35: every entry handed to the per-certificate renewal procedure goes
\* from pending to exactly one terminal state (done-success, done-failure or
\* done-skipped) and never leaves it, exactly one result is produced per
\* processed entry, and a renew pass over a finite document terminates with
\* a response once every external call has returned or failed.
C35_EveryEntryTerminates ==
    /\ []OneResultPerEntry
    /\ [][TerminalIsFinal]_vars
    /\ [](Returned /\ LoopEntered => idx = Len(config) + 1)
    /\ envOk => <>Returned

\* A pass over a full document has returned with one result per entry, a
\* success, a failure and a skip among them.
C35_Witness ==
    /\ Returned
    /\ Len(config) = MaxEntries
    /\ Len(results) = MaxEntries
    /\ \E i \in DOMAIN config : EntryState(i, results) = "done-success"
    /\ \E i \in DOMAIN config : EntryState(i, results) = "done-failure"
    /\ \E i \in DOMAIN config : EntryState(i, results) = "done-skipped"

(* --------------------- the classes of the summary --------------------- *)

\* The number of the classes success, failure and skipped the result r is
\* counted in by the three filters of the summary.
ClassesOf(r) ==
    Cardinality({c \in {"success", "failure", "skipped"} :
                   \/ c = "success" /\ IsSuccess(r)
                   \/ c = "failure" /\ IsFailed(r)
                   \/ c = "skipped" /\ IsSkipped(r)})

\* C36: in every renew response each result falls in exactly one of the
\* outcome classes success, failure and skipped, so that totalSuccess +
\* totalFailed + totalSkipped = totalProcessed = number of results, for
\* every combination of disabled, not-yet-due, dry-run, successful and
\* failing entries.
C36_ClassesPartitionResults ==
    (mode = "renew" /\ response.statusCode # 0) =>
        /\ response.totalProcessed = Len(response.results)
        /\ \A k \in DOMAIN response.results :
               ClassesOf(response.results[k]) = 1
        /\ response.totalSuccess + response.totalFailed
               + response.totalSkipped = response.totalProcessed

(* ------------------ the document that cannot be read ------------------ *)

\* The step of a certonly invocation that starts from an empty document.
StartsEmptyDocument ==
    /\ mode = "certonly"
    /\ pc = "readConfig"
    /\ pc' = "writeConfig"
    /\ config' = <<NewCertConfig(newArn)>>

\* The document new keeps every entry of the document old, in its place.
KeepsEntries(old, new) ==
    /\ Len(new.certificates) >= Len(old.certificates)
    /\ \A i \in DOMAIN old.certificates :
           new.certificates[i] = old.certificates[i]

\* C37: in certonly mode a new empty configuration document is initialised
\* only when no document exists at the configuration key; when an existing
\* document cannot be read or parsed, the stored document is not
\* overwritten and none of its entries is lost.
C37_UnreadableDocumentIsKept ==
    [][/\ StartsEmptyDocument =>
              \/ s3doc.kind = "NoSuchKey"
              \/ s3doc.kind = "json" /\ s3doc.certificates = <<>>
       /\ (mode = "certonly" /\ s3doc' # s3doc) =>
              \/ s3doc.kind = "NoSuchKey"
              \/ s3doc.kind = "json" /\ KeepsEntries(s3doc, s3doc')
      ]_vars

(* ---------------- the renew pass without a configuration --------------- *)

\* The operations of a renew pass that run the issuance tool or write to the
\* certificate store, the backup prefix or the account-state prefix.
EffectOperations == {"obtain", "import", "tag", "backup", "push"}

\* The renew handler has tried to read the configuration document and the
\* download raised, or it returned a text that is not a JSON document.
ConfigNotRead ==
    /\ mode = "renew"
    /\ \E j \in DOMAIN log :
         /\ log[j].op = "downloadConfig"
         /\ ~log[j].ok \/ s3doc.kind = "not-json"

\* C38: when the configuration document cannot be read or parsed in renew
\* mode, the invocation returns statusCode 500 with an empty results list
\* and totalProcessed = 0, having performed no issuance-tool invocation, no
\* import, no backup and no upload to the account-state prefix; the error
\* notification is sent and cleanup still runs.
C38_UnreadConfigurationFailsThePass ==
    ConfigNotRead =>
        /\ \A j \in DOMAIN log :
               log[j].op \notin EffectOperations \cup {"pull", "notify"}
        /\ results = <<>>
        /\ pc \in {"catch", "finally", "done"}
        /\ pc = "catch" => response = NoResponse
        /\ pc \in {"finally", "done"} =>
               /\ response.statusCode = 500
               /\ response.results = <<>>
               /\ response.totalProcessed = 0
               /\ Cardinality(CallsOf("notifyError", 0)) = 1
        /\ pc = "done" =>
               /\ Cardinality(CallsOf("cleanup", 0)) = 1
               /\ log[Len(log)].op = "cleanup"

C38_Witness ==
    /\ ConfigNotRead
    /\ s3doc.kind = "not-json"
    /\ pc = "done"
    /\ response.statusCode = 500

(* ------------------------ the kill by the timeout ---------------------- *)

\* A runtime that lets the handler push the directory of the tool once more
\* before it ends the invocation.
TimeoutWithFinalPush ==
    /\ mode = "renew"
    /\ pc \notin {"done", "raised", "killed"}
    /\ pc' = "killed"
    /\ remote' = IF localDir THEN remote \cup localFiles ELSE remote
    /\ UNCHANGED <<inputs, s3doc, config, idx, results, err, response,
                   localDir, localFiles, newArn, log, faults, nrCall>>

\* The runtime ends the invocation when the configured timeout has passed:
\* the handler stops where it is, neither catch nor finally runs and no
\* response is returned.
Timeout ==
    /\ mode = "renew"
    /\ pc \notin {"done", "raised", "killed"}
    /\ pc' = "killed"
    /\ UNCHANGED <<inputs, s3doc, config, idx, results, err, response,
                   localDir, localFiles, remote, newArn, log, faults,
                   nrCall>>

NextTimeout ==
    \/ NextRenew
    \/ Timeout

SpecTimeout == InitRenewPass /\ [][NextTimeout]_vars

\* The positions of the imports the certificate store has accepted.
Imports == {j \in DOMAIN log : log[j].op = "import" /\ log[j].ok}

\* The push has been called.
Pushed == \E j \in DOMAIN log : log[j].op = "push"

\* The account-state prefix as the pull of the invocation found it.
RemoteAtPull == log[CHOOSE j \in DOMAIN log : log[j].op = "pull"].arg

\* C39: when an invocation is killed by the timeout after the import of an
\* entry succeeded and before the final push, the certificate store holds
\* the imported certificate while the account-state prefix is exactly as it
\* was at the start of the invocation; the entries not yet reached have
\* caused no write to the store or to the object store.
C39_KillLosesOnlyTheAccountState ==
    (pc = "killed" /\ Imports # {} /\ ~Pushed) =>
        /\ \A j \in Imports :
               /\ log[j].ret # NoArn
               /\ log[j].idx \in 1..idx
        /\ remote = RemoteAtPull
        /\ remote = {AccountFile}
        /\ LineageFile \in localFiles
        /\ s3doc = Doc(config)
        /\ response = NoResponse
        /\ \A j \in DOMAIN log :
               log[j].idx > 0 => log[j].idx <= idx /\ log[j].idx <= Len(config)
        /\ \A i \in DOMAIN config :
               (i > idx \/ (i = idx /\ pc = "loop")) =>
                   \A j \in DOMAIN log : log[j].idx # i

C39_Witness ==
    /\ pc = "killed"
    /\ Imports # {}
    /\ ~Pushed
    /\ Len(config) > idx
    /\ LineageFile \in localFiles
    /\ LineageFile \notin remote

(* ------------------ the entry that certonly appends ------------------- *)

\* An optional field of the payload that is not given (undefined).
NoKeyType == ""
NoSize == 0

\* keyType and rsaKeySize of CertonlyPayload.
KeyTypes == {"rsa", "ecdsa"}
RsaKeySizes == {2048, 4096}

\* The TypeError of a method call on undefined.
ErrType == "Cannot read properties of undefined"

\* The ACME server URL a caller supplies.
ServerUrl == "https://acme.example/dir"

\* event.input.domains: no name, one name or two names.
PayloadDomains ==
    {<<>>} \cup {<<d>> : d \in PrimaryDomains}
           \cup {<<d, e>> : d \in PrimaryDomains, e \in PrimaryDomains}

\* event.input of a certonly invocation.
CertonlyPayloads ==
    [domains : PayloadDomains, server : {ServerUrl},
     keyType : KeyTypes \cup {NoKeyType},
     rsaKeySize : RsaKeySizes \cup {NoSize},
     forceRenewal : BOOLEAN]

\* params.keyType || 'rsa' and params.rsaKeySize || 2048
KeyTypeOrRsa(keyType) == IF keyType = NoKeyType THEN "rsa" ELSE keyType
RsaKeySizeOr2048(size) == IF size = NoSize THEN 2048 ELSE size

\* buildCertbotCommand: the tokens of the key type, --rsa-key-size only for
\* an RSA key.
KeyArgs(p) ==
    LET keyType == KeyTypeOrRsa(p.keyType)
        rsaKeySize == RsaKeySizeOr2048(p.rsaKeySize)
    IN  <<"--key-type", keyType>>
        \o (IF keyType = "rsa"
            THEN <<"--rsa-key-size", ToString(rsaKeySize)>>
            ELSE <<>>)

\* newCertConfig of handleCertonlyMode, with the fields of the payload.
NewCertConfigFromPayload(p, arn) ==
    [id |-> CertId(p.domains[1]),
     domains |-> p.domains,
     acmeProvider |-> "custom",
     acmeServerUrl |-> p.server,
     acmCertificateArn |-> arn,
     renewDaysBeforeExpiry |-> DefaultRenewDays,
     enabled |-> TRUE,
     keyType |-> KeyTypeOrRsa(p.keyType),
     rsaKeySize |-> p.rsaKeySize]

\* A certonly invocation at obtainCertificateFromPayload; `domain` holds
\* event.input.
InitEntry ==
    /\ pc = "c_obtain"
    /\ mode = "certonly"
    /\ envOk = TRUE
    /\ dryRun = FALSE
    /\ filter = NoFilter
    /\ payloadArn \in {NoArn, PriorArn(1)}
    /\ domain \in CertonlyPayloads
    /\ s3doc = NoDoc
    /\ config = <<>>
    /\ idx = 1
    /\ results = <<>>
    /\ err = NoError
    /\ response = NoResponse
    /\ localDir = TRUE
    /\ localFiles = {AccountFile}
    /\ remote = {AccountFile}
    /\ newArn = NoArn
    /\ log = <<>>
    /\ faults = 0
    /\ nrCall = NoCall

\* obtainCertificateFromPayload: the tool is run with the key tokens of
\* buildCertbotCommand and exits with or without an error.
ObtainFromPayload ==
    /\ pc = "c_obtain"
    /\ \E ok \in BOOLEAN :
         /\ log' = Append(log, Call("obtain", 0, KeyArgs(domain), ok))
         /\ IF ok THEN Goto("c_import") ELSE Throw(ErrCertbot)
    /\ UNCHANGED <<inputs, s3doc, config, idx, results, response, localDir,
                   localFiles, remote, newArn, faults, nrCall>>

\* certId (domains[0].replace throws without a first name), backup and
\* import of the certificate.
ImportFromPayload ==
    /\ pc = "c_import"
    /\ IF domain.domains = <<>>
       THEN /\ Throw(ErrType)
            /\ UNCHANGED <<log, newArn>>
       ELSE /\ newArn' = ImportedArn(payloadArn, log)
            /\ log' = Append(log, Returning(Call("import", 0, payloadArn,
                                                 TRUE), newArn'))
            /\ Goto("readConfig")
    /\ UNCHANGED <<inputs, s3doc, config, idx, results, response, localDir,
                   localFiles, remote, faults, nrCall>>

\* The document is read or started, the new entry is appended and the
\* document is uploaded.
AppendEntry ==
    /\ pc = "readConfig"
    /\ config' = Append(s3doc.certificates, NewCertConfigFromPayload(domain, newArn))
    /\ s3doc' = Doc(config')
    /\ log' = Append(log, Call("uploadConfig", 0, "", TRUE))
    /\ pc' = "done"
    /\ UNCHANGED <<inputs, idx, results, err, response, localDir, localFiles,
                   remote, newArn, faults, nrCall>>

NextEntry ==
    \/ ObtainFromPayload
    \/ ImportFromPayload
    \/ AppendEntry

SpecEntry == InitEntry /\ [][NextEntry]_vars

\* The invariant of a certificate entry.
CertificateEntryInvariant(e) ==
    /\ e.domains # <<>>
    /\ e.acmeProvider = "custom" => e.acmeServerUrl # ""
    /\ e.rsaKeySize # NoSize => e.keyType = "rsa"

\* C40: every entry certonly appends to the configuration document
\* satisfies the invariant of a certificate entry for every accepted
\* payload: domains is non-empty, acmeServerUrl is present because the
\* provider is custom, and rsaKeySize is present only when keyType is rsa.
C40_AppendedEntryIsWellFormed ==
    (mode = "certonly" /\ pc = "done") =>
        \A i \in DOMAIN s3doc.certificates :
            /\ s3doc.certificates[i].acmeProvider = "custom"
            /\ CertificateEntryInvariant(s3doc.certificates[i])

====
